---- MODULE Spec2Model ----
(***************************************************************************)
(* A model of the pose-matching core of retarget_bvh (MakeWalk):           *)
(*   - the FK/IK transfer operators of fkik.py (constraint muting, layer   *)
(*     switching, the per-frame snap of arm and leg chains),               *)
(*   - the pose-space / global-space conversion of fkik.py,                *)
(*   - the floor pass and the toe pass of floor.py, with the selection     *)
(*     of rig and plane and the operators' execute,                        *)
(*   - Bend Limbs Positive and matchPoleTarget of fkik.py,                 *)
(*   - the keyframe writer and setInterpolation of utils.py,               *)
(*   - the frame ranges of utils.py (getActiveFrames and                   *)
(*     getActiveFramesBetweenMarkers).                                     *)
(* The specifications SpecTransfer, SpecMatrix, SpecFloor, SpecBend,       *)
(* SpecPole, SpecToe, SpecKeys and SpecRange share the variables; each     *)
(* leaves the other parts' variables at their idle value.                  *)
(***************************************************************************)
EXTENDS Integers, Sequences, FiniteSets, TLC

VARIABLES
    \* ---- the rig and the scene (fkik.py, utils.py)
    rigMissing,     \* the snap bones the rig lacks
    mute,           \* constraint -> its mute flag
    layers,         \* the set of visible armature layers (rig.data.layers)
    ikSwitch,       \* the rig's MhaArmIk_* / MhaLegIk_* properties
    legIkToAnkle,   \* the rig's MhaLegIkToAnkle_L / _R properties
    keyTimes,       \* the key times of the active action's curves
    animData,       \* the rig's animation data: the action's F-curves and keys
    theUseAccurate, \* fkik.theUseAccurate, the module global
    \* ---- one run of a transfer operator
    pc,             \* where the operator is
    op,             \* the operator invoked and its properties
    savedLayers,    \* the layers the operator's prequel saved
    oldLayers,      \* the local oldLayers of transferMhxToFk / ToIk
    frames,         \* the local frames
    frameIdx,       \* the index n of the frame loop (1-based), 0 outside
    callsDone,      \* how many calls of the current frame's snap were made
    dirty,          \* the writes made since the last scene refresh
    written,        \* bones written in the current frame, in order
    result,         \* how the last run of the operator ended
    muteBefore,     \* history: mute when the operator was invoked
    layersBefore,   \* history: layers when the operator was invoked
    changed,        \* history: the run has muted a constraint or set layers
    \* ---- one conversion between pose space and global space
    mBone,          \* the pose bone: rest matrix, parent's rest and pose
    mIn,            \* the matrix given
    mMid,           \* the result of the first conversion
    mOut,           \* the result of converting back
    mPc,            \* which conversions have been made
    \* ---- one run of the floor pass (floor.py)
    fRig,           \* the rig: leg IK properties, foot bones, F-curves
    fPlane,         \* the selected mesh, if any: matrix_world and location
    fScn,           \* scn.McpFloorLeft, McpFloorRight, McpFloorHips
    fKeyTimes,      \* the key times of the rig's action
    fPc,            \* where floorFoot is
    fUseIk,         \* the local useIk
    fInfo,          \* the locals ez and origin
    fFrames,        \* the local frames
    fIdx,           \* the index of the frame loop (1-based), 0 before it
    fPose,          \* the pose evaluated by scn.frame_set for the frame
    fLocals,        \* the offsets computed in the frame
    fCalls,         \* the addOffset calls made in the frame, in order
    fKeys,          \* the location keyframes inserted by the pass
    \* ---- one run of Bend Limbs Positive (fkik.py)
    bCurves,        \* bone -> its X-rotation F-curve (key time -> value), if any
    bKeyTimes,      \* the key times of the other curves of the action
    bOp,            \* the operator properties: useElbows, useKnees, startFrame, endFrame
    bPc,            \* where the operator is
    bFrames,        \* the local frames
    bDone,          \* how many minimizeFCurve calls were made
    bBefore,        \* history: bCurves when the operator was invoked
    \* ---- one call of matchPoleTarget (fkik.py)
    pBone,          \* the pole-target bone pb
    pAbove,         \* above.matrix
    pBelow,         \* below.matrix
    pFrame,         \* the current frame
    pPc,            \* whether the call was made
    pOut,           \* the pole point p and the location written
    pKeys,          \* the location keyframes of the pole-target bone
    \* ---- one run of the toe pass, toesBelowBall (floor.py)
    tRig,           \* the rig: its MhaLegIk_L / MhaLegIk_R properties, whether it has markers
    tPlane,         \* the selected mesh, if any
    tAnim,          \* the animation: (side, frame) -> the pose frame_set evaluates
    tKeyTimes,      \* the key times of the rig action
    tLayers,        \* rig.data.layers
    tFrame,         \* scn.frame_current
    tPc,            \* where toesBelowBall is
    tErr,           \* the error raised, if any
    tFrames,        \* the local frames
    tIdx,           \* the index of the frame loop (1-based), 0 before it
    tWritten,       \* the path taken and the matrices of the last frame processed
    tKeys,          \* the rotation keyframes of the toes
    tBefore,        \* history: frame, layers and keys when the pass was invoked
    tView,          \* context.view_layer.objects: type, name, select flag
    tUsed,          \* the rig and plane getRigAndPlane returned
    tExec,          \* what MCP_OT_OffsetToe.execute did: its return, the error dialog
    \* ---- calls of the keyframe writer, insertLocation / insertRotation (utils.py)
    kBone,          \* the pose bone: rotation_mode and the values of its properties
    kAnim,          \* the rig animation data: the F-curves of its action
    kMat,           \* the pose matrix the calls are given
    kFrame,         \* scn.frame_current
    kCalls,         \* the calls made, in order
    kErr,           \* the error raised, if any
    kPrev,          \* history: the bone and the curves before the last call
    \* ---- one call of a frame-range function (utils.py)
    rAnim,          \* the animation data of the object
    rMarkers,       \* scn.timeline_markers: frame and select flag
    rCall,          \* the function called and its arguments
    rOut,           \* what the call returned or raised
    rPc             \* whether the call was made

transferVars ==
    <<rigMissing, mute, layers, ikSwitch, legIkToAnkle, keyTimes, animData,
      theUseAccurate,
      pc, op, savedLayers, oldLayers, frames, frameIdx, callsDone, dirty, written,
      result, muteBefore, layersBefore, changed>>

matrixVars == <<mBone, mIn, mMid, mOut, mPc>>

floorVars ==
    <<fRig, fPlane, fScn, fKeyTimes, fPc, fUseIk, fInfo, fFrames, fIdx, fPose,
      fLocals,
      fCalls, fKeys>>

bendVars ==
    <<bCurves, bKeyTimes, bOp, bPc, bFrames, bDone, bBefore>>

poleVars ==
    <<pBone, pAbove, pBelow, pFrame, pPc, pOut, pKeys>>

toeVars ==
    <<tRig, tPlane, tAnim, tKeyTimes, tLayers, tFrame, tPc, tErr,
      tFrames, tIdx, tWritten, tKeys, tBefore, tView, tUsed, tExec>>

keysVars ==
    <<kBone, kAnim, kMat, kFrame, kCalls, kErr, kPrev>>

rangeVars ==
    <<rAnim, rMarkers, rCall, rOut, rPc>>

vars == <<transferVars, matrixVars, floorVars,
         bendVars,
         poleVars,
         toeVars,
         keysVars,
         rangeVars>>

\* idle values of the parts a specification does not use
NoMatrix == <<>>

IdleMatrix ==
    /\ mBone = NoMatrix
    /\ mIn = NoMatrix
    /\ mMid = NoMatrix
    /\ mOut = NoMatrix
    /\ mPc = "unused"

IdleFloor ==
    /\ fRig = <<>>
    /\ fPlane = <<>>
    /\ fScn = <<>>
    /\ fKeyTimes = {}
    /\ fPc = "unused"
    /\ fUseIk = FALSE
    /\ fInfo = <<>>
    /\ fFrames = <<>>
    /\ fIdx = 0
    /\ fPose = <<>>
    /\ fLocals = <<>>
    /\ fCalls = <<>>
    /\ fKeys = {}

IdleBend ==
    /\ bCurves = <<>>
    /\ bKeyTimes = {}
    /\ bOp = <<>>
    /\ bPc = "unused"
    /\ bFrames = <<>>
    /\ bDone = 0
    /\ bBefore = <<>>

IdlePole ==
    /\ pBone = <<>>
    /\ pAbove = <<>>
    /\ pBelow = <<>>
    /\ pFrame = 0
    /\ pPc = "unused"
    /\ pOut = <<>>
    /\ pKeys = {}

IdleToe ==
    /\ tRig = <<>>
    /\ tPlane = <<>>
    /\ tAnim = <<>>
    /\ tKeyTimes = {}
    /\ tLayers = {}
    /\ tFrame = 0
    /\ tPc = "unused"
    /\ tErr = ""
    /\ tFrames = <<>>
    /\ tIdx = 0
    /\ tWritten = <<>>
    /\ tKeys = {}
    /\ tBefore = <<>>
    /\ tView = <<>>
    /\ tUsed = <<>>
    /\ tExec = <<>>

IdleKeys ==
    /\ kBone = <<>>
    /\ kAnim = <<>>
    /\ kMat = <<>>
    /\ kFrame = 0
    /\ kCalls = <<>>
    /\ kErr = ""
    /\ kPrev = <<>>

IdleRange ==
    /\ rAnim = <<>>
    /\ rMarkers = <<>>
    /\ rCall = <<>>
    /\ rOut = <<>>
    /\ rPc = "unused"

IdleTransfer ==
    /\ rigMissing = {}
    /\ mute = <<>>
    /\ layers = {}
    /\ ikSwitch = <<>>
    /\ legIkToAnkle = <<>>
    /\ keyTimes = {}
    /\ animData = <<>>
    /\ theUseAccurate = TRUE
    /\ pc = "unused"
    /\ op = <<>>
    /\ savedLayers = {}
    /\ oldLayers = {}
    /\ frames = <<>>
    /\ frameIdx = 0
    /\ callsDone = 0
    /\ dirty = {}
    /\ written = <<>>
    /\ result = "none"
    /\ muteBefore = <<>>
    /\ layersBefore = {}
    /\ changed = FALSE

-----------------------------------------------------------------------------
(* Bounds of the model *)

\* key times and the operator's start/end frame lie in 1..MaxFrame
MaxFrame == 2

-----------------------------------------------------------------------------
(* The rig: bones, snap-bone tables, constraints, layers *)

Sides == {"L", "R"}

None == <<"", "">>

\* fkik.SnapBonesAlpha8; "" stands for the None slot of ArmIK
SnapBonesAlpha8 ==
    [ ArmFK |-> <<"upper_arm.fk", "forearm.fk", "hand.fk">>,
      ArmIK |-> <<"upper_arm.ik", "forearm.ik", "", "elbow.pt.ik", "hand.ik">>,
      LegFK |-> <<"thigh.fk", "shin.fk", "foot.fk", "toe.fk">>,
      LegIK |-> <<"thigh.ik", "shin.ik", "knee.pt.ik", "ankle", "ankle.ik",
                  "foot.ik", "foot.rev", "toe.rev", "ball.marker",
                  "toe.marker", "heel.marker">> ]

SnapKeys == {"ArmFK", "ArmIK", "LegFK", "LegIK"}

Range(s) == {s[i] : i \in 1..Len(s)}

\* every bone the snap-bone convention names, as <<name, side>>
AllSnapBones ==
    UNION {{<<n, s>> : n \in Range(SnapBonesAlpha8[k]) \ {""}} : k \in SnapKeys,
                                                                  s \in Sides}

\* the rigs the operators are tried on, each given by the snap bones it
\* lacks: a complete MHX rig, and rigs that lack one bone of the convention
RigChoices == { {}, {<<"thigh.fk", "L">>}, {<<"hand.ik", "R">>} }

\* rig.pose.bones of a rig that lacks the bones in missing
RigBones(missing) == AllSnapBones \ missing

\* the constraints of the rig: rotation limits on snap bones of several
\* groups and sides, and one constraint of another type
RigConstraints ==
    { [bone |-> <<"forearm.fk", "L">>, type |-> "LIMIT_ROTATION"],
      [bone |-> <<"foot.ik", "R">>,    type |-> "LIMIT_ROTATION"],
      [bone |-> <<"shin.ik", "L">>,    type |-> "IK"] }

\* utils.MhxLayers = 8*[True] + 8*[False] + 8*[True] + 8*[False]
MhxLayers == (0..7) \cup (16..23)

AllLayers == 0..31

\* utils.hasAllBones / utils.isMhxRig
isMhxRig(bones) == <<"foot.rev", "L">> \in bones


-----------------------------------------------------------------------------
(* fkik.getSnapBones, muteConstraints, muteAllConstraints *)

\* getSnapBones with the mute test inverted: collects the muted constraints
getSnapBonesMuted(bones, m, key, side) ==
    LET names  == SnapBonesAlpha8[key]
        pbones == [i \in 1..Len(names) |->
                      IF names[i] = "" THEN None ELSE <<names[i], side>>]
        wanted == Range(pbones) \ {None}
    IN  IF <<"thigh.fk", "L">> \notin bones
        THEN [err |-> "MocapError", pbones |-> <<>>, constraints |-> {}]
        ELSE IF ~(wanted \subseteq bones)
        THEN [err |-> "KeyError", pbones |-> <<>>, constraints |-> {}]
        ELSE [err |-> "", pbones |-> pbones,
              constraints |-> {c \in RigConstraints :
                                  /\ c.bone \in wanted
                                  /\ c.type = "LIMIT_ROTATION"
                                  /\ m[c]}]

\* getSnapBones(rig, key, suffix): the bones of one snap-bone table on one
\* side, and the rotation-limit constraints on them that are not muted now.
\* err is "MocapError" when the rig has no thigh.fk.L, "KeyError" when a
\* named bone is missing.
getSnapBones(bones, m, key, side) ==
    LET names  == SnapBonesAlpha8[key]
        pbones == [i \in 1..Len(names) |->
                      IF names[i] = "" THEN None ELSE <<names[i], side>>]
        wanted == Range(pbones) \ {None}
    IN  IF <<"thigh.fk", "L">> \notin bones
        THEN [err |-> "MocapError", pbones |-> <<>>, constraints |-> {}]
        ELSE IF ~(wanted \subseteq bones)
        THEN [err |-> "KeyError", pbones |-> <<>>, constraints |-> {}]
        ELSE [err |-> "", pbones |-> pbones,
              constraints |-> {c \in RigConstraints :
                                  /\ c.bone \in wanted
                                  /\ c.type = "LIMIT_ROTATION"
                                  /\ ~m[c]}]

\* muteConstraints(constraints, value)
muteConstraints(m, constraints, value) ==
    [c \in DOMAIN m |-> IF c \in constraints THEN value ELSE m[c]]

\* the eight getSnapBones calls of muteAllConstraints and transferMhxTo*,
\* in the order of the source
SnapCalls ==
    << <<"ArmIK", "L">>, <<"ArmFK", "L">>, <<"ArmIK", "R">>, <<"ArmFK", "R">>,
       <<"LegIK", "L">>, <<"LegFK", "L">>, <<"LegIK", "R">>, <<"LegFK", "R">> >>

\* the error of the first failing getSnapBones call, "" when none fails
SnapError(bones, m) ==
    LET res == [i \in 1..Len(SnapCalls) |->
                   getSnapBones(bones, m, SnapCalls[i][1], SnapCalls[i][2])]
        bad == {i \in 1..Len(SnapCalls) : res[i].err # ""}
    IN  IF bad = {} THEN ""
        ELSE res[CHOOSE i \in bad : \A j \in bad : i <= j].err

\* muteAllConstraints(rig, value): all eight lists are collected first, from
\* the mute flags as they are now, and then each list is set to value
muteAllConstraints(bones, m, value) ==
    LET err == SnapError(bones, m)
        all == UNION {getSnapBones(bones, m, SnapCalls[i][1],
                                   SnapCalls[i][2]).constraints :
                         i \in 1..Len(SnapCalls)}
    IN  IF err # "" THEN [err |-> err, mute |-> m]
        ELSE [err |-> "", mute |-> muteConstraints(m, all, value)]

-----------------------------------------------------------------------------
(* fkik.setMhxIk *)

IkProps == {"MhaArmIk_L", "MhaArmIk_R", "MhaLegIk_L", "MhaLegIk_R"}

\* setMhxIk showing the first set of layers without hiding the second
setMhxIkShowOnly(bones, sw, lay, useArms, useLegs, value) ==
    LET ikLayers == (IF useArms THEN {2, 18} ELSE {}) \cup
                    (IF useLegs THEN {4, 20} ELSE {})
        fkLayers == (IF useArms THEN {3, 19} ELSE {}) \cup
                    (IF useLegs THEN {5, 21} ELSE {})
        first    == IF value # 0 THEN ikLayers ELSE fkLayers
        written1 == (IF useArms THEN {"MhaArmIk_L", "MhaArmIk_R"} ELSE {}) \cup
                    (IF useLegs THEN {"MhaLegIk_L", "MhaLegIk_R"} ELSE {})
    IN  IF isMhxRig(bones)
        THEN [ikSwitch |-> [p \in IkProps |->
                               IF p \in written1 THEN value ELSE sw[p]],
              layers   |-> lay \cup first]
        ELSE [ikSwitch |-> sw, layers |-> lay]

\* setMhxIk(rig, useArms, useLegs, value): sets the switches of the included
\* limbs and shows one set of layers, hides the other
setMhxIk(bones, sw, lay, useArms, useLegs, value) ==
    LET ikLayers == (IF useArms THEN {2, 18} ELSE {}) \cup
                    (IF useLegs THEN {4, 20} ELSE {})
        fkLayers == (IF useArms THEN {3, 19} ELSE {}) \cup
                    (IF useLegs THEN {5, 21} ELSE {})
        first    == IF value # 0 THEN ikLayers ELSE fkLayers
        second   == IF value # 0 THEN fkLayers ELSE ikLayers
        written1 == (IF useArms THEN {"MhaArmIk_L", "MhaArmIk_R"} ELSE {}) \cup
                    (IF useLegs THEN {"MhaLegIk_L", "MhaLegIk_R"} ELSE {})
    IN  IF isMhxRig(bones)
        THEN [ikSwitch |-> [p \in IkProps |->
                               IF p \in written1 THEN value ELSE sw[p]],
              layers   |-> (lay \cup first) \ second]
        ELSE [ikSwitch |-> sw, layers |-> lay]

-----------------------------------------------------------------------------
(* utils.getActiveFrames0, getActiveFrames *)

RECURSIVE SortedSeq(_)
\* list(active.keys()) followed by frames.sort()
SortedSeq(S) ==
    IF S = {} THEN <<>>
    ELSE LET lo == CHOOSE x \in S : \A y \in S : x <= y
         IN  <<lo>> \o SortedSeq(S \ {lo})

Reverse(s) == [i \in 1..Len(s) |-> s[Len(s) + 1 - i]]

RECURSIVE TrimBelow(_, _)
\* while frames[0] < minTime: frames = frames[1:]
\* frames[0] of an empty list raises IndexError
TrimBelow(fr, minTime) ==
    IF fr = <<>> THEN [err |-> "IndexError", frames |-> <<>>]
    ELSE IF Head(fr) < minTime THEN TrimBelow(Tail(fr), minTime)
    ELSE [err |-> "", frames |-> fr]

RECURSIVE TrimAbove(_, _)
\* while frames[0] > maxTime: frames = frames[1:]   (on the reversed list)
TrimAbove(fr, maxTime) ==
    IF fr = <<>> THEN [err |-> "IndexError", frames |-> <<>>]
    ELSE IF Head(fr) > maxTime THEN TrimAbove(Tail(fr), maxTime)
    ELSE [err |-> "", frames |-> fr]

\* getActiveFrames returning the empty list where a trimming loop runs out
\* of frames
getActiveFramesOrEmpty(keys, minTime, maxTime) ==
    LET lo == TrimBelow(SortedSeq(keys), minTime)
        hi == TrimAbove(Reverse(lo.frames), maxTime)
    IN  IF lo.err # "" THEN [err |-> "", frames |-> <<>>]
        ELSE IF hi.err # "" THEN [err |-> "", frames |-> <<>>]
        ELSE [err |-> "", frames |-> Reverse(hi.frames)]

\* getActiveFrames(ob, minTime, maxTime) with both times given
getActiveFrames(keys, minTime, maxTime) ==
    LET lo == TrimBelow(SortedSeq(keys), minTime)
        hi == TrimAbove(Reverse(lo.frames), maxTime)
    IN  IF lo.err # "" THEN lo
        ELSE IF hi.err # "" THEN hi
        ELSE [err |-> "", frames |-> Reverse(hi.frames)]

-----------------------------------------------------------------------------
(* fkik.updatePose and the per-frame snaps of a chain *)

\* a call that writes bone <<name, side>> of the chain <<limb, side>>
Match(fn, name, limb, side) ==
    [fn |-> fn, pb |-> <<name, side>>, limb |-> limb, side |-> side]

\* a call of updatePose()
UpdatePose == [fn |-> "updatePose", pb |-> None, limb |-> "", side |-> ""]

\* updatePose with the flag inverted
updatePoseInverted(d, accurate) == IF accurate THEN d ELSE {}

\* updatePose(): updateScene() when theUseAccurate, nothing otherwise;
\* d is the set of bones written and not yet refreshed
updatePose(d, accurate) == IF accurate THEN {} ELSE d

\* snapFkArm(rig, snapIk, snapFk, frame): the calls it makes, in order
snapFkArm(side) ==
    << Match("matchPoseTransform", "upper_arm.fk", "Arm", side),
       UpdatePose,
       Match("matchPoseTransform", "forearm.fk", "Arm", side),
       UpdatePose,
       Match("matchPoseTransform", "hand.fk", "Arm", side) >>

\* snapIkArm(rig, snapIk, snapFk, frame)
snapIkArm(side) ==
    << Match("matchPoseLocRot", "hand.ik", "Arm", side),
       UpdatePose,
       Match("matchPoleTarget", "elbow.pt.ik", "Arm", side) >>

\* snapFkLeg(rig, snapIk, snapFk, frame, legIkToAnkle)
snapFkLeg(side, toAnkle) ==
    << Match("matchPoseTransform", "thigh.fk", "Leg", side),
       UpdatePose,
       Match("matchPoseTransform", "shin.fk", "Leg", side) >>
    \o (IF ~toAnkle
        THEN << UpdatePose,
                Match("matchPoseReverse", "foot.fk", "Leg", side),
                UpdatePose,
                Match("matchPoseReverse", "toe.fk", "Leg", side) >>
        ELSE <<>>)

\* snapIkLeg(rig, snapIk, snapFk, frame, legIkToAnkle): the flag is not read
snapIkLeg(side, toAnkle) ==
    << Match("matchPoseTranslation", "ankle", "Leg", side),
       UpdatePose,
       Match("matchIkLeg", "foot.ik", "Leg", side),
       UpdatePose,
       Match("matchPoseReverse", "toe.rev", "Leg", side),
       UpdatePose,
       Match("matchPoseReverse", "foot.rev", "Leg", side),
       UpdatePose,
       Match("matchPoseTranslation", "ankle.ik", "Leg", side),
       UpdatePose,
       Match("matchPoleTarget", "knee.pt.ik", "Leg", side) >>

\* the body of the frame loop of transferMhxToFk (name "ToFk") and of
\* transferMhxToIk (name "ToIk") after frame_set and updateScene
FrameCalls(o, toAnkle) ==
    IF o.name = "ToFk"
    THEN (IF o.useArms THEN snapFkArm("L") \o snapFkArm("R") ELSE <<>>) \o
         (IF o.useLegs
          THEN snapFkLeg("L", toAnkle["L"]) \o snapFkLeg("R", toAnkle["R"])
          ELSE <<>>)
    ELSE (IF o.useArms THEN snapIkArm("L") \o snapIkArm("R") ELSE <<>>) \o
         (IF o.useLegs
          THEN snapIkLeg("L", toAnkle["L"]) \o snapIkLeg("R", toAnkle["R"])
          ELSE <<>>)

\* the parent of a bone inside its snap chain, None for the chain's first
\* bone and for the free controls: the FK chains run upper -> lower -> end,
\* the reverse foot chain foot.ik -> toe.rev -> foot.rev -> ankle.ik
ChainParent(b) ==
    LET par == [x \in {"forearm.fk", "hand.fk", "shin.fk", "foot.fk",
                       "toe.fk", "toe.rev", "foot.rev", "ankle.ik"} |->
                   CASE x = "forearm.fk" -> "upper_arm.fk"
                     [] x = "hand.fk"    -> "forearm.fk"
                     [] x = "shin.fk"    -> "thigh.fk"
                     [] x = "foot.fk"    -> "shin.fk"
                     [] x = "toe.fk"     -> "foot.fk"
                     [] x = "toe.rev"    -> "foot.ik"
                     [] x = "foot.rev"   -> "toe.rev"
                     [] x = "ankle.ik"   -> "foot.rev"]
    IN  IF b[1] \in DOMAIN par THEN <<par[b[1]], b[2]>> ELSE None

-----------------------------------------------------------------------------
(* utils.py: the F-curves of the rig's action, setInterpolation *)

\* rig.animation_data is None
NoAnimData == [data |-> FALSE, action |-> FALSE, fcurves |-> {}, points |-> {}]

\* rig.animation_data.action is None
NoAction == [data |-> TRUE, action |-> FALSE, fcurves |-> {}, points |-> {}]

\* an action: its F-curves [path, extrapolation] and their keyframe_points
\* [path, frame, value, interpolation]; the path of a curve is
\* <<bone, property, index>>
Action(fcurves, points) ==
    [data |-> TRUE, action |-> TRUE, fcurves |-> fcurves, points |-> points]

\* the interpolation the host gives a new keyframe
NewKeyInterpolation == "BEZIER"

\* the keyframe_points of the curve with the given path at a frame
PointsAt(anim, path, frame) ==
    {pt \in anim.points : pt.path = path /\ pt.frame = frame}

\* the point that pb.keyframe_insert puts on a curve: the value, with the
\* interpolation of the key it replaces, if any
NewPoint(anim, path, frame, value) ==
    [path |-> path, frame |-> frame, value |-> value,
     interpolation |->
        IF PointsAt(anim, path, frame) # {}
        THEN (CHOOSE pt \in PointsAt(anim, path, frame) : TRUE).interpolation
        ELSE NewKeyInterpolation]

\* keyframe_insert leaving the key that was at the frame in place
keyframe_insertKeepOld(anim, pb, prop, values, frame) ==
    LET paths == {<<pb, prop, i>> : i \in 1..Len(values)}
    IN  Action(anim.fcurves
                 \cup {[path |-> p, extrapolation |-> "CONSTANT"] :
                         p \in {q \in paths :
                                  \A fcu \in anim.fcurves : fcu.path # q}},
               anim.points
                 \cup {NewPoint(anim, <<pb, prop, i>>, frame, values[i]) :
                         i \in 1..Len(values)})

\* pb.keyframe_insert(prop, group=pb.name) at the current frame: every
\* index of the property gets a key with its value; the curve is made if
\* the action has none, and a key already at the frame is replaced
keyframe_insert(anim, pb, prop, values, frame) ==
    LET paths == {<<pb, prop, i>> : i \in 1..Len(values)}
    IN  Action(anim.fcurves
                 \cup {[path |-> p, extrapolation |-> "CONSTANT"] :
                         p \in {q \in paths :
                                  \A fcu \in anim.fcurves : fcu.path # q}},
               {pt \in anim.points : ~(pt.path \in paths /\ pt.frame = frame)}
                 \cup {NewPoint(anim, <<pb, prop, i>>, frame, values[i]) :
                         i \in 1..Len(values)})

\* setInterpolation leaving the extrapolation of the curves alone
setInterpolationPointsOnly(anim) ==
    IF ~anim.data THEN anim
    ELSE IF ~anim.action THEN anim
    ELSE [anim EXCEPT
            !.points = {[pt EXCEPT !.interpolation = "LINEAR"] : pt \in @}]

\* setInterpolation(rig)
setInterpolation(anim) ==
    IF ~anim.data THEN anim
    ELSE IF ~anim.action THEN anim
    ELSE [anim EXCEPT
            !.fcurves = {[fcu EXCEPT !.extrapolation = "CONSTANT"] : fcu \in @},
            !.points = {[pt EXCEPT !.interpolation = "LINEAR"] : pt \in @}]

-----------------------------------------------------------------------------
(* The operator framework: execute = prequel, run, sequel *)

\* HidePropsOperator.prequel: the data it keeps for the sequel
HidePropsPrequel(lay) == lay

\* HidePropsOperator.sequel: restores what the prequel kept
HidePropsSequel(lay, data) == data

\* the layer visibility and the IK switches the rig starts with
RigSetups ==
    { [layers |-> AllLayers, ik |-> 0], [layers |-> {0, 3, 5}, ik |-> 1] }

NoOp ==
    [name |-> "", useArms |-> FALSE, useLegs |-> FALSE, accurate |-> FALSE,
     startFrame |-> 0, endFrame |-> 0]

\* the rig's MhaLegIkToAnkle_L / _R properties read by transferMhxToFk and
\* transferMhxToIk: both off, or on for the left leg
AnkleChoices ==
    { f \in [Sides -> BOOLEAN] : ~f["R"] }

\* the properties a match call keys: insertLocation, insertRotation or both
KeyedProps(fn) ==
    CASE fn \in {"matchPoseTranslation", "matchPoleTarget"} -> {"location"}
      [] fn \in {"matchPoseRotation", "matchPoseReverse"} -> {"rotation"}
      [] OTHER -> {"location", "rotation"}

\* the keys a match call inserts at the frame; the transfer follows which
\* keys exist, their values stand as 0
insertKeys(anim, call, frame) ==
    LET loc == IF "location" \in KeyedProps(call.fn)
               THEN keyframe_insert(anim, call.pb, "location", <<0>>, frame)
               ELSE anim
    IN  IF "rotation" \in KeyedProps(call.fn)
        THEN keyframe_insert(loc, call.pb, "rotation", <<0>>, frame)
        ELSE loc

\* the animation data of a rig whose curves have keys at the times T: none
\* or no action when there are no keys, else an action with a root
\* location curve (linear keys, constant extrapolation) and a root rotation
\* curve (Bezier keys, linear extrapolation)
RigActions(T) ==
    IF T = {} THEN {NoAnimData, NoAction}
    ELSE { Action({[path |-> <<<<"root", "">>, "location", 1>>,
                    extrapolation |-> "CONSTANT"],
                   [path |-> <<<<"root", "">>, "rotation", 1>>,
                    extrapolation |-> "LINEAR"]},
                  {[path |-> <<<<"root", "">>, "location", 1>>, frame |-> t,
                    value |-> t, interpolation |-> "LINEAR"] : t \in T}
                  \cup {[path |-> <<<<"root", "">>, "rotation", 1>>, frame |-> t,
                         value |-> 1, interpolation |-> "BEZIER"] : t \in T}) }

InitTransfer ==
    /\ rigMissing \in RigChoices
    /\ mute \in [RigConstraints -> BOOLEAN]
    /\ \E setup \in RigSetups :
          /\ layers = setup.layers
          /\ ikSwitch = [p \in IkProps |-> setup.ik]
    /\ legIkToAnkle \in AnkleChoices
    /\ keyTimes \in SUBSET (1..MaxFrame)
    /\ animData \in RigActions(keyTimes)
    /\ theUseAccurate = TRUE
    /\ pc = "idle"
    /\ op = NoOp
    /\ savedLayers = {}
    /\ oldLayers = {}
    /\ frames = <<>>
    /\ frameIdx = 0
    /\ callsDone = 0
    /\ dirty = {}
    /\ written = <<>>
    /\ result = "none"
    /\ muteBefore = mute
    /\ layersBefore = layers
    /\ changed = FALSE
    /\ IdleMatrix
    /\ IdleFloor
    /\ IdleBend
    /\ IdlePole
    /\ IdleToe
    /\ IdleKeys
    /\ IdleRange

rigVars == <<rigMissing, legIkToAnkle, keyTimes>>

\* the calls of the current frame's snap, and the next one to make
Calls == FrameCalls(op, legIkToAnkle)

NextCall == Calls[callsDone + 1]

notTransfer == <<matrixVars, floorVars,
      bendVars,
      poleVars,
      toeVars,
      keysVars,
      rangeVars>>

\* the user invokes MCP_OT_TransferToFk ("ToFk") or MCP_OT_TransferToIk
\* ("ToIk") with some setting of the operator's properties
Invoke ==
    /\ pc = "idle"
    /\ result = "none"
    /\ pc' = "prequel"
    /\ \E name \in {"ToFk", "ToIk"}, useArms \in BOOLEAN, useLegs \in BOOLEAN,
          accurate \in BOOLEAN, startFrame \in 1..MaxFrame,
          endFrame \in 1..MaxFrame :
          op' = [name |-> name, useArms |-> useArms, useLegs |-> useLegs,
                 accurate |-> accurate, startFrame |-> startFrame,
                 endFrame |-> endFrame]
    /\ muteBefore' = mute
    /\ layersBefore' = layers
    /\ changed' = FALSE
    /\ result' = "running"
    /\ UNCHANGED notTransfer
    /\ UNCHANGED <<rigVars, animData, mute, layers, ikSwitch, theUseAccurate, savedLayers,
                   oldLayers, frames, frameIdx, callsDone, dirty, written>>

\* MCP_OT_TransferToFk.prequel / MCP_OT_TransferToIk.prequel
Prequel ==
    /\ pc = "prequel"
    /\ LET r == muteAllConstraints(RigBones(rigMissing), mute, TRUE)
       IN  IF r.err # ""
           THEN /\ pc' = "idle"
                /\ result' = r.err
                /\ UNCHANGED <<mute, savedLayers, changed>>
           ELSE /\ mute' = r.mute
                /\ savedLayers' = HidePropsPrequel(layers)
                /\ changed' = (r.mute # mute)
                /\ pc' = "run"
                /\ UNCHANGED result
    /\ UNCHANGED notTransfer
    /\ UNCHANGED <<rigVars, animData, layers, ikSwitch, theUseAccurate, op, oldLayers,
                   frames, frameIdx, callsDone, dirty, written, muteBefore,
                   layersBefore>>

\* run up to the frame loop: setAccuracy, isMhxRig, then transferMhxToFk /
\* transferMhxToIk down to getActiveFrames
RunBegin ==
    /\ pc = "run"
    /\ theUseAccurate' = op.accurate
    /\ LET err == IF ~isMhxRig(RigBones(rigMissing)) THEN "MocapError"
                  ELSE SnapError(RigBones(rigMissing), mute)
           sw  == setMhxIk(RigBones(rigMissing), ikSwitch, layers, op.useArms, op.useLegs,
                           IF op.name = "ToFk" THEN 1 ELSE 0)
           fr  == getActiveFrames(keyTimes, op.startFrame, op.endFrame)
       IN  IF err # ""
           THEN /\ pc' = "sequel"
                /\ result' = err
                /\ UNCHANGED <<layers, ikSwitch, oldLayers, frames, changed>>
           ELSE /\ oldLayers' = layers
                /\ ikSwitch' = sw.ikSwitch
                /\ layers' = MhxLayers
                /\ changed' = TRUE
                /\ IF fr.err # ""
                   THEN /\ pc' = "sequel"
                        /\ result' = fr.err
                        /\ UNCHANGED frames
                   ELSE /\ pc' = "frames"
                        /\ frames' = fr.frames
                        /\ UNCHANGED result
    /\ frameIdx' = 0
    /\ callsDone' = 0
    /\ dirty' = {}
    /\ written' = <<>>
    /\ UNCHANGED notTransfer
    /\ UNCHANGED <<rigVars, animData, mute, op, savedLayers, muteBefore, layersBefore>>

\* the head of the frame loop: scn.frame_set(frame); updateScene()
FrameSet ==
    /\ pc = "frames"
    /\ callsDone = (IF frameIdx = 0 THEN 0 ELSE Len(Calls))
    /\ frameIdx < Len(frames)
    /\ frameIdx' = frameIdx + 1
    /\ callsDone' = 0
    /\ dirty' = {}
    /\ written' = <<>>
    /\ UNCHANGED notTransfer
    /\ UNCHANGED <<rigVars, animData, mute, layers, ikSwitch, theUseAccurate, pc, op,
                   savedLayers, oldLayers, frames, result, muteBefore,
                   layersBefore, changed>>

\* one matchPose* / matchIkLeg / matchPoleTarget call: the pose-space
\* transform of the bone is computed and written
MatchStep ==
    /\ pc = "frames"
    /\ frameIdx >= 1
    /\ callsDone < Len(Calls)
    /\ NextCall.fn # "updatePose"
    /\ dirty' = dirty \cup {NextCall}
    /\ written' = Append(written, NextCall.pb)
    /\ animData' = insertKeys(animData, NextCall, frames[frameIdx])
    /\ callsDone' = callsDone + 1
    /\ UNCHANGED notTransfer
    /\ UNCHANGED <<rigVars, mute, layers, ikSwitch, theUseAccurate, pc, op,
                   savedLayers, oldLayers, frames, frameIdx, result,
                   muteBefore, layersBefore, changed>>

\* one updatePose() call
UpdatePoseStep ==
    /\ pc = "frames"
    /\ frameIdx >= 1
    /\ callsDone < Len(Calls)
    /\ NextCall.fn = "updatePose"
    /\ dirty' = updatePose(dirty, theUseAccurate)
    /\ callsDone' = callsDone + 1
    /\ UNCHANGED notTransfer
    /\ UNCHANGED <<rigVars, animData, mute, layers, ikSwitch, theUseAccurate, pc, op,
                   savedLayers, oldLayers, frames, frameIdx, written, result,
                   muteBefore, layersBefore, changed>>

\* after the last frame: layers restored, setMhxIk, setInterpolation, and
\* run raises MocapMessage
RunEnd ==
    /\ pc = "frames"
    /\ callsDone = Len(Calls)
    /\ frameIdx = Len(frames)
    /\ LET sw == setMhxIk(RigBones(rigMissing), ikSwitch, oldLayers, op.useArms,
                          op.useLegs, IF op.name = "ToFk" THEN 0 ELSE 1)
       IN  /\ layers' = sw.layers
           /\ ikSwitch' = sw.ikSwitch
    /\ animData' = setInterpolation(animData)
    /\ pc' = "sequel"
    /\ result' = "message"
    /\ UNCHANGED notTransfer
    /\ UNCHANGED <<rigVars, mute, theUseAccurate, op, savedLayers, oldLayers,
                   frames, frameIdx, callsDone, dirty, written, muteBefore,
                   layersBefore, changed>>

\* MCP_OT_TransferToFk.sequel / MCP_OT_TransferToIk.sequel, run whether or
\* not run raised
Sequel ==
    /\ pc = "sequel"
    /\ mute' = muteAllConstraints(RigBones(rigMissing), mute, FALSE).mute
    /\ layers' = HidePropsSequel(layers, savedLayers)
    /\ pc' = "idle"
    /\ UNCHANGED notTransfer
    /\ UNCHANGED <<rigVars, animData, ikSwitch, theUseAccurate, op, savedLayers,
                   oldLayers, frames, frameIdx, callsDone, dirty, written, result,
                   muteBefore, layersBefore, changed>>

NextTransfer ==
    \/ Invoke
    \/ Prequel
    \/ RunBegin
    \/ FrameSet
    \/ MatchStep
    \/ UpdatePoseStep
    \/ RunEnd
    \/ Sequel

SpecTransfer == InitTransfer /\ [][NextTransfer]_vars

-----------------------------------------------------------------------------
(* Properties of the transfer operators *)

\* the rotation-limit constraints on snap bones
LimitConstraints ==
    {c \in RigConstraints : c.type = "LIMIT_ROTATION" /\ c.bone \in AllSnapBones}

Failed == result \in {"MocapError", "KeyError", "IndexError"}

\* C1: after a complete transfer (prequel, run, sequel) every rotation-limit
\* constraint on a snap bone has the mute flag it had before the operation.
C1_MuteFlagsRestored ==
    (pc = "idle" /\ result = "message") =>
        \A c \in LimitConstraints : mute[c] = muteBefore[c]

\* C2: while the frames of the range are snapped, every rotation-limit
\* constraint on every snap bone is muted.
C2_MutedDuringFrames ==
    (pc = "frames" /\ frameIdx >= 1) => \A c \in LimitConstraints : mute[c]

\* C2 witness: the last of several frames has been snapped on a rig that had
\* an unmuted rotation limit on an FK arm bone and on an IK leg bone.
C2_Witness ==
    /\ pc = "frames"
    /\ Len(frames) >= 2
    /\ frameIdx = Len(frames)
    /\ callsDone = Len(Calls)
    /\ written # <<>>
    /\ \A c \in LimitConstraints : ~muteBefore[c]

\* C3: when a transfer that has muted constraints or changed the layers ends
\* with an error, layers and mute flags are as they were before it.
C3_RestoredOnError ==
    (pc = "idle" /\ Failed /\ changed) =>
        /\ layers = layersBefore
        /\ \A c \in RigConstraints : mute[c] = muteBefore[c]

\* the next call of the frame's snap computes and writes a bone
NextMatch ==
    /\ pc = "frames"
    /\ frameIdx >= 1
    /\ callsDone < Len(Calls)
    /\ NextCall.fn # "updatePose"

\* no write of the chain the next call belongs to is still unrefreshed
RefreshedBeforeCompute ==
    NextMatch =>
        \A d \in dirty : ~(d.limb = NextCall.limb /\ d.side = NextCall.side)

RECURSIVE ChainAncestors(_)
ChainAncestors(b) ==
    IF ChainParent(b) = None THEN {}
    ELSE {ChainParent(b)} \cup ChainAncestors(ChainParent(b))

AncestorsOf == [b \in AllSnapBones |-> ChainAncestors(b)]

\* within the frame no bone is written after one of its chain descendants
RootMostFirst ==
    \A j \in 1..Len(written) : \A i \in 1..(j - 1) :
        written[j] \notin AncestorsOf[written[i]]

\* C4 as claimed: for every setting of the options, the segments of a chain
\* are written root-most first with a refresh between a write and the next
\* segment's computation.
C4_RefreshedAnyOption ==
    pc = "frames" => (RefreshedBeforeCompute /\ RootMostFirst)

\* C4 amended: with the accurate option set, the segments of a chain are
\* written root-most first with a refresh between a write and the next
\* segment's computation.
C4_RefreshedWhenAccurate ==
    (pc = "frames" /\ op.accurate) => (RefreshedBeforeCompute /\ RootMostFirst)

\* C4 witness: accurate transfer about to write toe.rev.L right after
\* foot.ik.L of the same chain was written, and again an FK chain's child.
C4_Witness ==
    /\ NextMatch
    /\ op.accurate
    /\ written # <<>>
    /\ written[Len(written)] = ChainParent(NextCall.pb)
    /\ NextCall.pb = <<"toe.rev", "L">>

-----------------------------------------------------------------------------
(* mathutils: vectors and matrices with integer entries.  A matrix is the  *)
(* sequence of its rows; the matrices used have determinant 1, -1 or 0, so *)
(* that the inverse of an invertible one has integer entries.  The         *)
(* operations are functions on Vec and Mat.                                *)

Vec == Seq(Int)

Mat == Seq(Seq(Int))

RECURSIVE SumTo(_, _)
\* f[1] + ... + f[n]
SumTo(f, n) == IF n = 0 THEN 0 ELSE f[n] + SumTo(f, n - 1)

RECURSIVE TupleOf(_, _)
\* the vector or matrix with the entries f[1], ..., f[n]
TupleOf(f, n) == IF n = 0 THEN <<>> ELSE Append(TupleOf(f, n - 1), f[n])

\* Vector.dot
Dot[u \in Vec, v \in Vec] == SumTo([i \in 1..Len(u) |-> u[i] * v[i]], Len(u))

VAdd[u \in Vec, v \in Vec] == TupleOf([i \in 1..Len(u) |-> u[i] + v[i]], Len(u))

VSub[u \in Vec, v \in Vec] == TupleOf([i \in 1..Len(u) |-> u[i] - v[i]], Len(u))

VScale[k \in Int, v \in Vec] == TupleOf([i \in 1..Len(v) |-> k * v[i]], Len(v))

\* a @ b
MatMul[a \in Mat, b \in Mat] ==
    TupleOf([i \in 1..Len(a) |->
                TupleOf([j \in 1..Len(b[1]) |->
                            SumTo([k \in 1..Len(b) |-> a[i][k] * b[k][j]],
                                  Len(b))],
                        Len(b[1]))],
            Len(a))

\* the matrix without row i and column j
Minor[a \in Mat, i \in Nat, j \in Nat] ==
    TupleOf([r \in 1..(Len(a) - 1) |->
                TupleOf([c \in 1..(Len(a) - 1) |->
                            a[IF r < i THEN r ELSE r + 1]
                             [IF c < j THEN c ELSE c + 1]],
                        Len(a) - 1)],
            Len(a) - 1)

Sign(k) == IF k % 2 = 0 THEN 1 ELSE -1

\* Matrix.determinant, by expansion along the first row
Det[a \in Mat] ==
    CASE Len(a) = 1 -> a[1][1]
      [] Len(a) = 2 -> a[1][1] * a[2][2] - a[1][2] * a[2][1]
      [] Len(a) = 3 ->
            a[1][1] * (a[2][2] * a[3][3] - a[2][3] * a[3][2])
          - a[1][2] * (a[2][1] * a[3][3] - a[2][3] * a[3][1])
          + a[1][3] * (a[2][1] * a[3][2] - a[2][2] * a[3][1])
      [] OTHER ->
            SumTo([j \in 1..Len(a) |->
                      Sign(1 + j) * a[1][j] * Det[Minor[a, 1, j]]], Len(a))

\* the adjugate of a over d, its determinant
InvertedBy[a \in Mat, d \in Int] ==
    TupleOf([i \in 1..Len(a) |->
                TupleOf([j \in 1..Len(a) |->
                            (Sign(i + j) * Det[Minor[a, j, i]]) \div d],
                        Len(a))],
            Len(a))

\* Matrix.inverted(): the adjugate over the determinant; a matrix without an
\* inverse raises ValueError
InvertedOf[a \in Mat] ==
    IF Det[a] = 0 THEN [err |-> "ValueError", m |-> <<>>]
    ELSE [err |-> "", m |-> InvertedBy[a, Det[a]]]

\* column j of a matrix (Matrix.col[j-1])
Col[a \in Mat, j \in Nat] == TupleOf([i \in 1..Len(a) |-> a[i][j]], Len(a))

\* the first three entries of a 4-vector (Vector(v[:3]))
Vec3[v \in Vec] == <<v[1], v[2], v[3]>>

\* the 4x4 matrix with 3x3 part r and translation t
Affine[r \in Mat, t \in Vec] ==
    << <<r[1][1], r[1][2], r[1][3], t[1]>>,
       <<r[2][1], r[2][2], r[2][3], t[2]>>,
       <<r[3][1], r[3][2], r[3][3], t[3]>>,
       <<0, 0, 0, 1>> >>

\* Matrix.to_translation
ToTranslation[a \in Mat] == <<a[1][4], a[2][4], a[3][4]>>

\* Matrix.to_3x3
To3x3[a \in Mat] == TupleOf([i \in 1..3 |-> <<a[i][1], a[i][2], a[i][3]>>], 3)

Id3 == << <<1, 0, 0>>, <<0, 1, 0>>, <<0, 0, 1>> >>

\* rotation by a quarter turn about X: local Y goes to global Z
RotX == << <<1, 0, 0>>, <<0, 0, -1>>, <<0, 1, 0>> >>

\* rotation by a quarter turn about Z
RotZ == << <<0, -1, 0>>, <<1, 0, 0>>, <<0, 0, 1>> >>

\* a shear, determinant 1, not orthogonal
Shear == << <<1, 1, 0>>, <<0, 1, 0>>, <<0, 0, 1>> >>

\* a mirror, determinant -1
Mirror == << <<-1, 0, 0>>, <<0, 1, 0>>, <<0, 0, 1>> >>

\* a bone scaled to zero along Y: no inverse
Flat == << <<1, 0, 0>>, <<0, 0, 0>>, <<0, 0, 1>> >>

\* rotation by a half turn about Z: local Y goes to global -Y
Flip == << <<-1, 0, 0>>, <<0, -1, 0>>, <<0, 0, 1>> >>

\* rotation by a quarter turn about X the other way: local Y goes to global -Z
RotXInv == << <<1, 0, 0>>, <<0, 0, 1>>, <<0, -1, 0>> >>

Id4 == Affine[Id3, <<0, 0, 0>>]

\* the rest matrices (bone.matrix_local) of the bones the floor pass moves,
\* and the pose of the root bone
RootRest == Id4

RootBasis == Affine[RotZ, <<0, 1, 0>>]

HipsRest == Affine[RotX, <<0, 0, 3>>]

\* the left leg is at x = 1, the right leg at x = -1
SideX(side) == IF side = "L" THEN 1 ELSE 0 - 1

IkRest(side) == Affine[Flip, <<SideX(side), 0, 0>>]

\* the inverses of those matrices, worked out once
Inverses ==
    { [a |-> a, inv |-> InvertedOf[a]] :
         a \in {RootRest, MatMul[RootRest, RootBasis], HipsRest, IkRest("L"),
                IkRest("R")} }

\* Matrix.inverted()
Inverted[a \in Mat] ==
    IF \E t \in Inverses : t.a = a
    THEN (CHOOSE t \in Inverses : t.a = a).inv
    ELSE InvertedOf[a]

-----------------------------------------------------------------------------
(* fkik.getPoseMatrix, fkik.getGlobalMatrix *)

\* a pose bone as the two functions read it: pb.bone.matrix_local, pb.parent,
\* pb.parent.bone.matrix_local, pb.parent.matrix
PoseBone(rest, hasParent, parRest, parMat) ==
    [rest |-> rest, hasParent |-> hasParent, parRest |-> parRest,
     parMat |-> parMat]

\* getPoseMatrix with the parent factors in the wrong order
getPoseMatrixSwapped(gmat, pb) ==
    LET restInv == Inverted[pb.rest]
        parInv  == Inverted[pb.parMat]
    IN  IF restInv.err # "" THEN restInv
        ELSE IF pb.hasParent
        THEN IF parInv.err # "" THEN parInv
             ELSE [err |-> "",
                   m |-> MatMul[MatMul[MatMul[restInv.m, parInv.m],
                                       pb.parRest], gmat]]
        ELSE [err |-> "", m |-> MatMul[restInv.m, gmat]]

\* getPoseMatrix(gmat, pb)
getPoseMatrix(gmat, pb) ==
    LET restInv == Inverted[pb.rest]
        parInv  == Inverted[pb.parMat]
    IN  IF restInv.err # "" THEN restInv
        ELSE IF pb.hasParent
        THEN IF parInv.err # "" THEN parInv
             ELSE [err |-> "",
                   m |-> MatMul[MatMul[MatMul[restInv.m, pb.parRest],
                                       parInv.m], gmat]]
        ELSE [err |-> "", m |-> MatMul[restInv.m, gmat]]

\* getGlobalMatrix(mat, pb)
getGlobalMatrix(mat, pb) ==
    LET gmat       == MatMul[pb.rest, mat]
        parRestInv == Inverted[pb.parRest]
    IN  IF pb.hasParent
        THEN IF parRestInv.err # "" THEN parRestInv
             ELSE [err |-> "",
                   m |-> MatMul[MatMul[pb.parMat, parRestInv.m], gmat]]
        ELSE [err |-> "", m |-> gmat]

\* the matrices the conversions are tried on
MatChoices ==
    { Affine[Id3, <<0, 0, 0>>],
      Affine[RotX, <<1, 0, 2>>],
      Affine[RotZ, <<0, 3, 0>>],
      Affine[Shear, <<2, -1, 1>>],
      Affine[Mirror, <<0, 0, 4>>],
      Affine[Flat, <<1, 1, 1>>] }

\* the bones the conversions are tried on: root bones and bones with a
\* parent, with invertible and with degenerate matrices
BoneChoices ==
    { PoseBone(r, FALSE, Affine[Id3, <<0, 0, 0>>], Affine[Id3, <<0, 0, 0>>]) :
         r \in MatChoices }
    \cup
    { PoseBone(r, TRUE, pr, pm) :
         r \in {Affine[RotX, <<1, 0, 2>>], Affine[Shear, <<2, -1, 1>>],
                Affine[Flat, <<1, 1, 1>>]},
         pr \in {Affine[RotZ, <<0, 3, 0>>], Affine[Mirror, <<0, 0, 4>>],
                 Affine[Flat, <<1, 1, 1>>]},
         pm \in {Affine[RotX, <<1, 0, 2>>], Affine[Shear, <<2, -1, 1>>],
                 Affine[Flat, <<1, 1, 1>>]} }

InitMatrix ==
    /\ mBone \in BoneChoices
    /\ mIn \in MatChoices
    /\ mMid = NoMatrix
    /\ mOut = NoMatrix
    /\ mPc = "start"
    /\ IdleTransfer
    /\ IdleFloor
    /\ IdleBend
    /\ IdlePole
    /\ IdleToe
    /\ IdleKeys
    /\ IdleRange

notMatrix == <<transferVars, floorVars,
      bendVars,
      poleVars,
      toeVars,
      keysVars,
      rangeVars>>

\* a global matrix is taken to pose space
ToPoseFirst ==
    /\ mPc = "start"
    /\ mMid' = getPoseMatrix(mIn, mBone)
    /\ mPc' = "pose"
    /\ UNCHANGED <<mBone, mIn, mOut, notMatrix>>

\* and back to global space
BackToGlobal ==
    /\ mPc = "pose"
    /\ mMid.err = ""
    /\ mOut' = getGlobalMatrix(mMid.m, mBone)
    /\ mPc' = "pose-global"
    /\ UNCHANGED <<mBone, mIn, mMid, notMatrix>>

\* a pose matrix is taken to global space
ToGlobalFirst ==
    /\ mPc = "start"
    /\ mMid' = getGlobalMatrix(mIn, mBone)
    /\ mPc' = "global"
    /\ UNCHANGED <<mBone, mIn, mOut, notMatrix>>

\* and back to pose space
BackToPose ==
    /\ mPc = "global"
    /\ mMid.err = ""
    /\ mOut' = getPoseMatrix(mMid.m, mBone)
    /\ mPc' = "global-pose"
    /\ UNCHANGED <<mBone, mIn, mMid, notMatrix>>

NextMatrix ==
    \/ ToPoseFirst
    \/ BackToGlobal
    \/ ToGlobalFirst
    \/ BackToPose

SpecMatrix == InitMatrix /\ [][NextMatrix]_vars

\* every matrix the bone's conversions invert has an inverse
Invertible(pb) ==
    /\ Det[pb.rest] # 0
    /\ pb.hasParent => (Det[pb.parRest] # 0 /\ Det[pb.parMat] # 0)

\* C5: for a bone whose rest and parent matrices are invertible, with or
\* without a parent, getGlobalMatrix(getPoseMatrix(M)) = M and
\* getPoseMatrix(getGlobalMatrix(P)) = P for every matrix.
C5_ExactInverses ==
    (mPc \in {"pose-global", "global-pose"} /\ Invertible(mBone)) =>
        (mOut.err = "" /\ mOut.m = mIn)

\* C5 witness: a round trip through pose space was made for a bone with a
\* parent whose matrices do not commute, on a matrix that is not a rotation.
C5_Witness ==
    /\ mPc = "pose-global"
    /\ mBone.hasParent
    /\ Invertible(mBone)
    /\ mBone.parRest # mBone.parMat
    /\ mIn = Affine[Shear, <<2, -1, 1>>]
    /\ mMid.m # mIn
    /\ mOut.m = mIn

-----------------------------------------------------------------------------
(* floor.py: the plane and offsets from it *)

\* Vector.length, for the vectors whose length is a whole number
Length[v \in Vec] == CHOOSE k \in 0..Dot[v, v] : k * k = Dot[v, v]

\* Vector.normalized(); a zero vector stays zero
NormalizedVec[v \in Vec] ==
    IF Length[v] = 0 THEN v
    ELSE TupleOf([i \in 1..Len(v) |-> v[i] \div Length[v]], Len(v))

\* the matrix whose rows are the given columns
FromCols[cols \in Mat] ==
    TupleOf([i \in 1..Len(cols) |->
                TupleOf([j \in 1..Len(cols) |-> cols[j][i]], Len(cols))],
            Len(cols))

\* Matrix.normalized(): the matrix with every column normalized
Normalized[a \in Mat] ==
    FromCols[TupleOf([j \in 1..Len(a) |-> NormalizedVec[Col[a, j]]], Len(a))]

\* no mesh selected
NoPlane == [none |-> TRUE, matrix_world |-> Id4, location |-> <<0, 0, 0>>]

\* a selected mesh
Plane(matrix_world, location) ==
    [none |-> FALSE, matrix_world |-> matrix_world, location |-> location]

\* getPlaneInfo(plane): ez and origin
getPlaneInfo(plane) ==
    IF plane.none
    THEN [ez |-> <<0, 0, 1>>, origin |-> <<0, 0, 0>>]
    ELSE LET mat == Normalized[To3x3[plane.matrix_world]]
         IN  [ez |-> Col[mat, 3], origin |-> plane.location]

\* getOffset(point, ez, origin)
getOffset(point, ez, origin) ==
    LET vec == VSub[Vec3[point], origin]
    IN  0 - Dot[ez, vec]

\* getHeadOffset(pb, ez, origin)
getHeadOffset(pb, ez, origin) ==
    LET head == Col[pb.matrix, 4]
    IN  getOffset(head, ez, origin)

\* getTailOffset(pb, ez, origin)
getTailOffset(pb, ez, origin) ==
    LET head == Col[pb.matrix, 4]
        y    == Col[pb.matrix, 2]
        tail == VAdd[head, VScale[pb.length, y]]
    IN  getOffset(tail, ez, origin)

\* addOffset writing the global translation as the bone's location
addOffsetGlobal(pb, offset, ez) ==
    [err |-> "",
     location |-> <<pb.matrix[1][4] + offset * ez[1],
                    pb.matrix[2][4] + offset * ez[2],
                    pb.matrix[3][4] + offset * ez[3]>>]

\* addOffset(pb, offset, ez): the location that insertLocation writes
addOffset(pb, offset, ez) ==
    LET gmat == TupleOf([i \in 1..4 |->
                            <<pb.matrix[i][1], pb.matrix[i][2], pb.matrix[i][3],
                              IF i <= 3 THEN pb.matrix[i][4] + offset * ez[i]
                              ELSE pb.matrix[i][4]>>],
                        4)
        pmat == getPoseMatrix(gmat, pb)
    IN  IF pmat.err # "" THEN [err |-> pmat.err, location |-> <<>>]
        ELSE [err |-> "", location |-> ToTranslation[pmat.m]]

\* utils.insertLocation: pb.keyframe_insert("location") at the current frame;
\* a key already at that frame is replaced
insertLocation(keys, pb, frame, location) ==
    {k \in keys : ~(k.pb = pb.name /\ k.frame = frame)}
        \cup {[pb |-> pb.name, frame |-> frame, location |-> location]}

\* getFkOffset without the heel
getFkOffsetNoHeel(rig, ez, origin, foot, toe, mBall, mToe, mHeel) ==
    IF mBall.exists
    THEN LET toeOffset  == getHeadOffset(mToe, ez, origin)
             ballOffset == getHeadOffset(mBall, ez, origin)
         IN  IF ballOffset > toeOffset THEN ballOffset ELSE toeOffset
    ELSE IF toe.exists
    THEN LET tailOffset == getTailOffset(toe, ez, origin)
             ballOffset == getHeadOffset(toe, ez, origin)
         IN  IF ballOffset > tailOffset THEN ballOffset ELSE tailOffset
    ELSE 0

\* getFkOffset(rig, ez, origin, foot, toe, mBall, mToe, mHeel)
getFkOffset(rig, ez, origin, foot, toe, mBall, mToe, mHeel) ==
    IF mBall.exists
    THEN LET toeOffset  == getHeadOffset(mToe, ez, origin)
             ballOffset == getHeadOffset(mBall, ez, origin)
             offset1    == IF ballOffset > toeOffset THEN ballOffset
                           ELSE toeOffset
             heelOffset == getHeadOffset(mHeel, ez, origin)
         IN  IF heelOffset > offset1 THEN heelOffset ELSE offset1
    ELSE IF toe.exists
    THEN LET offset0    == getTailOffset(toe, ez, origin)
             ballOffset == getHeadOffset(toe, ez, origin)
             offset1    == IF ballOffset > offset0 THEN ballOffset ELSE offset0
             ball       == Col[toe.matrix, 4]
             y          == Col[toe.matrix, 2]
             heel       == VSub[ball, VScale[foot.length, y]]
             heelOffset == getOffset(heel, ez, origin)
         IN  IF heelOffset > offset1 THEN heelOffset ELSE offset1
    ELSE 0

\* getIkOffset looking at the head only
getIkOffsetHead(rig, ez, origin, leg) ==
    getHeadOffset(leg, ez, origin)

\* getIkOffset(rig, ez, origin, leg)
getIkOffset(rig, ez, origin, leg) ==
    LET offset     == getHeadOffset(leg, ez, origin)
        tailOffset == getTailOffset(leg, ez, origin)
    IN  IF tailOffset > offset THEN tailOffset ELSE offset

\* floorFkFoot taking the left foot's offset only
fkFrameOffsetLeft(scn, lOffset, rOffset) ==
    IF scn.McpFloorLeft THEN lOffset ELSE 0

\* floorFkFoot: the offset of the frame from the feet's offsets; a foot's
\* offset is not computed when its side is off
fkFrameOffset(scn, lOffset, rOffset) ==
    LET offset == IF scn.McpFloorLeft THEN lOffset ELSE 0
    IN  IF scn.McpFloorRight /\ rOffset > offset THEN rOffset ELSE offset

\* floorIkFoot taking the larger of the feet's offsets for the root
ikHipsOffsetMax(lOffset, rOffset) ==
    IF lOffset > rOffset THEN lOffset ELSE rOffset

\* floorIkFoot taking the left foot's offset for the root
ikHipsOffsetLeft(lOffset, rOffset) == lOffset

\* floorIkFoot: hOffset = min(lOffset,rOffset)
ikHipsOffset(lOffset, rOffset) ==
    IF rOffset < lOffset THEN rOffset ELSE lOffset

-----------------------------------------------------------------------------
(* floor.py: the rig, the scene and the pose of a frame *)

\* a pose bone: pb.name, pb.bone.matrix_local, pb.parent and its matrices,
\* pb.matrix_basis, pb.length, and pb.matrix as the host evaluates it
Bone(name, rest, hasParent, parRest, parMat, basis, length) ==
    [exists |-> TRUE, name |-> name, rest |-> rest, hasParent |-> hasParent,
     parRest |-> parRest, parMat |-> parMat, basis |-> basis,
     length |-> length,
     matrix |-> getGlobalMatrix(basis,
                    PoseBone(rest, hasParent, parRest, parMat)).m]

\* None where a bone is looked for
NoBone == [exists |-> FALSE]

\* pb.length of the toe bone
ToeLength == 1

\* pb.length of the foot bone
FootLength == 2

\* pb.length of an IK foot control bone
IkLength == 2

\* what the rig has for an FK foot: the three markers, the target bones
\* only, or no target bones
Variants == {"markers", "toe", "none"}

\* the root bone, turned and moved by its animation
RootBone ==
    Bone(<<"root", "">>, RootRest, FALSE, Id4, Id4, RootBasis, 1)

\* the hips, a child of the root
HipsBone(l, r) ==
    Bone(<<"hips", "">>, HipsRest, TRUE, RootBone.rest,
         RootBone.matrix,
         Affine[IF l = r THEN Id3 ELSE RotZ,
                <<0, IF l = "above" THEN 1 ELSE 0, 0>>], 1)

\* an IK foot control bone, a child of the root or a bone without parent
IkBone(side, c, ikParent) ==
    Bone(<<"foot.ik", side>>, IkRest(side), ikParent,
         RootBone.rest, RootBone.matrix,
         CASE c = "above"    -> Affine[Id3, <<0, 0, 1>>]
           [] c = "toeDown"  -> Affine[RotX, <<0, 0, 0 - 1>>]
           [] c = "heelDown" -> Affine[RotXInv, <<0, 0, 0 - 1>>],
         IkLength)

\* a bone of the FK leg, given by its evaluated matrix
FkBone(name, side, matrix, length) ==
    Bone(<<name, side>>, matrix, FALSE, Id4, Id4, Id4, length)

ToeBone(side, c) ==
    FkBone("toe", side,
           CASE c = "above"    -> Affine[Flip, <<SideX(side), 0, 1>>]
             [] c = "toeDown"  -> Affine[RotXInv, <<SideX(side), 0, 0>>]
             [] c = "heelDown" -> Affine[RotX, <<SideX(side), 0, 0 - 1>>],
           ToeLength)

FootBone(side, c) ==
    FkBone("foot", side, Affine[Flip, <<SideX(side), 2, 2>>], FootLength)

\* the markers of a foot: toe.marker, ball.marker, heel.marker
MarkerBone(name, side, c) ==
    LET z == CASE name = "toe.marker" ->
                    (CASE c = "above" -> 1 [] c = "toeDown" -> 0 - 2
                       [] c = "heelDown" -> 0)
               [] name = "ball.marker" ->
                    (CASE c = "above" -> 1 [] c = "toeDown" -> 0 - 1
                       [] c = "heelDown" -> 0 - 1)
               [] name = "heel.marker" ->
                    (CASE c = "above" -> 0 [] c = "toeDown" -> 1
                       [] c = "heelDown" -> 0 - 3)
        y == CASE name = "toe.marker" -> 0 - 1
               [] name = "ball.marker" -> 0
               [] name = "heel.marker" -> 2
    IN  FkBone(name, side, Affine[Id3, <<SideX(side), y, z>>], 0)

\* rig.pose.bones as scn.frame_set evaluates them for a frame in which the
\* left foot is posed as l and the right foot as r
Pose(rig, l, r) ==
    LET c == [s \in Sides |-> IF s = "L" THEN l ELSE r]
    IN  [root  |-> RootBone,
         hips  |-> HipsBone(l, r),
         ik    |-> [s \in Sides |-> IkBone(s, c[s], rig.ikParent)],
         foot  |-> [s \in Sides |->
                       IF rig.variant = "none" THEN NoBone
                       ELSE FootBone(s, c[s])],
         toe   |-> [s \in Sides |->
                       IF rig.variant = "none" THEN NoBone
                       ELSE ToeBone(s, c[s])],
         mBall |-> [s \in Sides |->
                       IF rig.variant = "markers"
                       THEN MarkerBone("ball.marker", s, c[s]) ELSE NoBone],
         mToe  |-> [s \in Sides |->
                       IF rig.variant = "markers"
                       THEN MarkerBone("toe.marker", s, c[s]) ELSE NoBone],
         mHeel |-> [s \in Sides |->
                       IF rig.variant = "markers"
                       THEN MarkerBone("heel.marker", s, c[s]) ELSE NoBone]]

\* getFkFeetBones(rig, suffix): foot, toe, mBall, mToe, mHeel; a missing
\* marker makes all three None
getFkFeetBones(pose, side) ==
    LET markers == /\ pose.mBall[side].exists
                   /\ pose.mToe[side].exists
                   /\ pose.mHeel[side].exists
    IN  [foot  |-> pose.foot[side],
         toe   |-> pose.toe[side],
         mBall |-> IF markers THEN pose.mBall[side] ELSE NoBone,
         mToe  |-> IF markers THEN pose.mToe[side] ELSE NoBone,
         mHeel |-> IF markers THEN pose.mHeel[side] ELSE NoBone]

\* rigs used with FK feet: leg IK switches absent or both zero
FkRigs ==
    { [legIk |-> <<0, 0>>, variant |-> v, ikParent |-> FALSE, curves |-> FALSE] :
         v \in Variants }
    \cup
    { [legIk |-> <<>>, variant |-> "toe", ikParent |-> FALSE, curves |-> FALSE] }

\* rigs used with IK feet: a leg IK switch is on
IkRigs ==
    { [legIk |-> <<0, 1>>, variant |-> "toe", ikParent |-> p, curves |-> c] :
         p \in BOOLEAN, c \in BOOLEAN }

\* how the left and the right foot are posed in a frame: "above" the
\* ground, "toeDown" (toe tip lowest) or "heelDown" (heel lowest)
PoseChoices ==
    { <<"above", "above">>, <<"toeDown", "heelDown">>, <<"heelDown", "toeDown">>,
      <<"toeDown", "above">>, <<"heelDown", "heelDown">> }

\* the poses of every rig, worked out once
PoseTable ==
    { [rig |-> rig, l |-> c[1], r |-> c[2], pose |-> Pose(rig, c[1], c[2])] :
         rig \in FkRigs \cup IkRigs, c \in PoseChoices }

\* scn.frame_set(frame) on a frame posed as l, r: the evaluated pose
FrameSetPose(rig, l, r) ==
    (CHOOSE t \in PoseTable : t.rig = rig /\ t.l = l /\ t.r = r).pose

\* the planes tried: none, a level plane scaled by two and raised by one, a
\* plane stood upright whose normal is the global -Y
PlaneChoices ==
    { NoPlane,
      Plane(Affine[<< <<2, 0, 0>>, <<0, 2, 0>>, <<0, 0, 2>> >>, <<0, 0, 1>>],
            <<0, 0, 1>>),
      Plane(Affine[RotX, <<0, 0 - 1, 0>>], <<0, 0 - 1, 0>>) }

\* the frames of the selected timeline markers
MarkerChoices == { <<>>, <<2, 1>> }

\* useIk = rig["MhaLegIk_L"] or rig["MhaLegIk_R"], False on KeyError
getUseIk(rig) ==
    IF rig.legIk = <<>> THEN FALSE
    ELSE rig.legIk[1] # 0 \/ rig.legIk[2] # 0

\* getMarkedTime(scn): lowest and highest selected marker, if two or more
getMarkedTime(markers) ==
    IF Len(markers) >= 2
    THEN LET sorted == SortedSeq(Range(markers))
         IN  [none |-> FALSE, minTime |-> sorted[1],
              maxTime |-> sorted[Len(sorted)]]
    ELSE [none |-> TRUE, minTime |-> 0, maxTime |-> 0]

\* getActiveFramesBetweenMarkers leaving out the times of the two markers
getActiveFramesInsideMarkers(keys, markers) ==
    LET t == getMarkedTime(markers)
    IN  IF t.none THEN SortedSeq(keys)
        ELSE SortedSeq({time \in keys : time > t.minTime /\ time < t.maxTime})

\* getActiveFramesBetweenMarkers(ob, scn)
getActiveFramesBetweenMarkers(keys, markers) ==
    LET t == getMarkedTime(markers)
    IN  IF t.none THEN SortedSeq(keys)
        ELSE SortedSeq({time \in keys : time >= t.minTime /\ time <= t.maxTime})

\* fillKeyFrames(pb, rig, frames, 3, mode='location'): a key at every frame
\* of the range, holding the curve's value there (written <<>>), when the
\* bone has location curves
fillKeyFrames(keys, pb, rig, frs) ==
    IF ~rig.curves THEN keys
    ELSE {k \in keys : ~(k.pb = pb.name /\ k.frame \in Range(frs))}
            \cup {[pb |-> pb.name, frame |-> f, location |-> <<>>] :
                     f \in Range(frs)}

-----------------------------------------------------------------------------
(* floor.py: floorFoot, floorFkFoot, floorIkFoot *)

\* the scene settings tried: every setting of the three flags without
\* selected markers, and all flags set with two selected markers
ScnChoices ==
    { [McpFloorLeft |-> a, McpFloorRight |-> b, McpFloorHips |-> c,
       markers |-> <<>>] : a \in BOOLEAN, b \in BOOLEAN, c \in BOOLEAN }
    \cup
    { [McpFloorLeft |-> TRUE, McpFloorRight |-> TRUE, McpFloorHips |-> TRUE,
       markers |-> m] : m \in MarkerChoices }

NoLocals == [lOffset |-> <<>>, rOffset |-> <<>>, offset |-> 0]

InitFloor ==
    /\ fRig \in FkRigs \cup IkRigs
    /\ fPlane \in PlaneChoices
    /\ fScn \in ScnChoices
    /\ fKeyTimes \in SUBSET (1..MaxFrame)
    /\ fPc = "idle"
    /\ fUseIk = FALSE
    /\ fInfo = <<>>
    /\ fFrames = <<>>
    /\ fIdx = 0
    /\ fPose = <<>>
    /\ fLocals = NoLocals
    /\ fCalls = <<>>
    /\ fKeys = {}
    /\ IdleTransfer
    /\ IdleMatrix
    /\ IdleBend
    /\ IdlePole
    /\ IdleToe
    /\ IdleKeys
    /\ IdleRange

notFloor == <<transferVars, matrixVars,
      bendVars,
      poleVars,
      toeVars,
      keysVars,
      rangeVars>>

floorInputs == <<fRig, fPlane, fScn, fKeyTimes>>

\* a call addOffset(pb, offset, ez) and the location it writes
Call(pb, offset, ez) ==
    LET w == addOffset(pb, offset, ez)
    IN  [pb |-> pb.name, offset |-> offset, err |-> w.err,
         location |-> w.location]

RECURSIVE InsertAll(_, _, _)
\* the keys after the insertLocation of every call
InsertAll(keys, calls, frame) ==
    IF calls = <<>> THEN keys
    ELSE InsertAll(insertLocation(keys, [name |-> Head(calls).pb], frame,
                                  Head(calls).location),
                   Tail(calls), frame)

\* an inversion failed in one of the calls
CallFailed(calls) == \E i \in 1..Len(calls) : calls[i].err # ""

\* MCP_OT_FloorFoot.execute, floorFoot up to the frame loop: useIk, frames,
\* the plane's ez and origin and, for IK feet, the fillKeyFrames calls of
\* floorIkFoot
FloorInvoke ==
    /\ fPc = "idle"
    /\ fUseIk' = getUseIk(fRig)
    /\ fInfo' = getPlaneInfo(fPlane)
    /\ fFrames' = getActiveFramesBetweenMarkers(fKeyTimes, fScn.markers)
    /\ LET frs == getActiveFramesBetweenMarkers(fKeyTimes, fScn.markers)
           k1  == fillKeyFrames(fKeys, [name |-> <<"foot.ik", "L">>], fRig, frs)
           k2  == fillKeyFrames(k1, [name |-> <<"foot.ik", "R">>], fRig, frs)
           k3  == IF fScn.McpFloorHips
                  THEN fillKeyFrames(k2, [name |-> <<"root", "">>], fRig, frs)
                  ELSE k2
       IN  fKeys' = IF getUseIk(fRig) THEN k3 ELSE fKeys
    /\ fPc' = "frames"
    /\ UNCHANGED notFloor
    /\ UNCHANGED <<floorInputs, fIdx, fPose, fLocals, fCalls>>

\* floorFkFoot: one turn of the frame loop.  frame_set evaluates the pose
\* of the frame.
\* (\E over a one-element set names a value.)
FloorFkFrame ==
    /\ fPc = "frames"
    /\ ~fUseIk
    /\ fIdx < Len(fFrames)
    /\ \E c \in PoseChoices :
       \E pose \in {FrameSetPose(fRig, c[1], c[2])}, info \in {fInfo} :
       \E lf \in {getFkFeetBones(pose, "L")}, rf \in {getFkFeetBones(pose, "R")} :
       \E lOffset \in {IF fScn.McpFloorLeft
                        THEN getFkOffset(fRig, info.ez, info.origin, lf.foot,
                                         lf.toe, lf.mBall, lf.mToe, lf.mHeel)
                        ELSE 0},
          rOffset \in {IF fScn.McpFloorRight
                        THEN getFkOffset(fRig, info.ez, info.origin, rf.foot,
                                         rf.toe, rf.mBall, rf.mToe, rf.mHeel)
                        ELSE 0} :
       \E offset \in {fkFrameOffset(fScn, lOffset, rOffset)} :
       \E calls \in {IF offset > 0
                      THEN <<Call(pose.hips, offset, info.ez)>>
                      ELSE <<>>} :
          /\ fPose' = pose
          /\ fLocals' =
                [lOffset |-> IF fScn.McpFloorLeft THEN <<lOffset>> ELSE <<>>,
                 rOffset |-> IF fScn.McpFloorRight THEN <<rOffset>> ELSE <<>>,
                 offset  |-> offset]
          /\ fCalls' = calls
          /\ fKeys' = IF CallFailed(calls) THEN fKeys
                      ELSE InsertAll(fKeys, calls, fFrames[fIdx + 1])
          /\ fPc' = IF CallFailed(calls) THEN "failed" ELSE "frames"
    /\ fIdx' = fIdx + 1
    /\ UNCHANGED notFloor
    /\ UNCHANGED <<floorInputs, fUseIk, fInfo, fFrames>>

\* floorIkFoot: one turn of the frame loop
FloorIkFrame ==
    /\ fPc = "frames"
    /\ fUseIk
    /\ fIdx < Len(fFrames)
    /\ \E c \in PoseChoices :
       \E pose \in {FrameSetPose(fRig, c[1], c[2])}, info \in {fInfo} :
       \E lOffset \in {IF fScn.McpFloorLeft
                        THEN getIkOffset(fRig, info.ez, info.origin,
                                         pose.ik["L"])
                        ELSE 0},
          rOffset \in {IF fScn.McpFloorRight
                        THEN getIkOffset(fRig, info.ez, info.origin,
                                         pose.ik["R"])
                        ELSE 0} :
       \E hOffset \in {ikHipsOffset(lOffset, rOffset)} :
       \E lCalls \in {IF fScn.McpFloorLeft /\ lOffset > 0
                       THEN <<Call(pose.ik["L"], lOffset, info.ez)>>
                       ELSE <<>>},
          rCalls \in {IF fScn.McpFloorRight /\ rOffset > 0
                       THEN <<Call(pose.ik["R"], rOffset, info.ez)>>
                       ELSE <<>>},
          hCalls \in {IF hOffset > 0 /\ fScn.McpFloorHips
                       THEN <<Call(pose.root, hOffset, info.ez)>>
                       ELSE <<>>} :
       \E calls \in {lCalls \o rCalls \o hCalls} :
          /\ fPose' = pose
          /\ fLocals' = [lOffset |-> <<lOffset>>, rOffset |-> <<rOffset>>,
                         offset |-> hOffset]
          /\ fCalls' = calls
          /\ fKeys' = IF CallFailed(calls) THEN fKeys
                      ELSE InsertAll(fKeys, calls, fFrames[fIdx + 1])
          /\ fPc' = IF CallFailed(calls) THEN "failed" ELSE "frames"
    /\ fIdx' = fIdx + 1
    /\ UNCHANGED notFloor
    /\ UNCHANGED <<floorInputs, fUseIk, fInfo, fFrames>>

\* the frame loop is over: endProgress, the operator returns
FloorEnd ==
    /\ fPc = "frames"
    /\ fIdx = Len(fFrames)
    /\ fPc' = "done"
    /\ UNCHANGED notFloor
    /\ UNCHANGED <<floorInputs, fUseIk, fInfo, fFrames, fIdx, fPose, fLocals,
                   fCalls, fKeys>>

NextFloor ==
    \/ FloorInvoke
    \/ FloorFkFrame
    \/ FloorIkFrame
    \/ FloorEnd

SpecFloor == InitFloor /\ [][NextFloor]_vars

-----------------------------------------------------------------------------
(* Properties of the floor pass *)

\* a frame has been processed: fPose, fLocals and fCalls are those of frame
\* fFrames[fIdx]
FkProcessed == fPc \in {"frames", "done"} /\ ~fUseIk /\ fIdx >= 1

IkProcessed == fPc \in {"frames", "done"} /\ fUseIk /\ fIdx >= 1

Enabled(side) ==
    IF side = "L" THEN fScn.McpFloorLeft ELSE fScn.McpFloorRight

\* the plane's normal and origin; world up and the world origin without a
\* plane object
PlaneNormal == IF fPlane.none THEN <<0, 0, 1>> ELSE fInfo.ez

PlaneOrigin == IF fPlane.none THEN <<0, 0, 0>> ELSE fInfo.origin

\* offset = -normal . (point - planeOrigin)
PointOffset(p) == 0 - Dot[PlaneNormal, VSub[p, PlaneOrigin]]

MaxOf(S) == CHOOSE x \in S : \A y \in S : y <= x

MinOf(S) == CHOOSE x \in S : \A y \in S : x <= y

\* head and tail of a bone
HeadOf(pb) == Vec3[Col[pb.matrix, 4]]

TailOf(pb) == VAdd[HeadOf(pb), VScale[pb.length, Vec3[Col[pb.matrix, 2]]]]

\* the contact points of an FK foot: the marker heads when the markers
\* exist, otherwise the toe tail, the toe head and the derived heel point
FkContactPoints(side) ==
    IF fRig.variant = "markers"
    THEN {HeadOf(fPose.mToe[side]), HeadOf(fPose.mBall[side]),
          HeadOf(fPose.mHeel[side])}
    ELSE IF fRig.variant = "toe"
    THEN {TailOf(fPose.toe[side]), HeadOf(fPose.toe[side]),
          VSub[HeadOf(fPose.toe[side]),
               VScale[fPose.foot[side].length,
                      Vec3[Col[fPose.toe[side].matrix, 2]]]]}
    ELSE {}

\* the contact points of an IK foot: head and tail of its control bone
IkContactPoints(side) == {HeadOf(fPose.ik[side]), TailOf(fPose.ik[side])}

ContactPoints(side) ==
    IF fUseIk THEN IkContactPoints(side) ELSE FkContactPoints(side)

\* how far the lowest contact point of a foot is below the plane; 0 for a
\* foot without contact points
Lowest(side) ==
    IF ContactPoints(side) = {} THEN 0
    ELSE MaxOf({PointOffset(p) : p \in ContactPoints(side)})

\* the calls of the frame that moved a bone
CallsOf(name) == SelectSeq(fCalls, LAMBDA c : c.pb = name)

\* the location of a bone after the frame's calls
LocationAfter(pb) ==
    IF CallsOf(pb.name) = <<>> THEN ToTranslation[pb.basis]
    ELSE CallsOf(pb.name)[Len(CallsOf(pb.name))].location

\* the host's evaluation of a bone from its location, its unchanged
\* rotation, and its parent's matrix
Evaluated(pb, location, parMat) ==
    getGlobalMatrix(Affine[To3x3[pb.basis], location],
                    PoseBone(pb.rest, pb.hasParent, pb.parRest, parMat)).m

RootAfter == Evaluated(fPose.root, LocationAfter(fPose.root), Id4)

\* the global matrix of a bone the pass moves, after the frame's calls
MatrixAfter(pb) ==
    IF pb.hasParent THEN Evaluated(pb, LocationAfter(pb), RootAfter)
    ELSE Evaluated(pb, LocationAfter(pb), Id4)

\* the bone that controls a foot: the hips for FK feet, the foot's IK
\* control bone for IK feet
Control(side) == IF fUseIk THEN fPose.ik[side] ELSE fPose.hips

\* how far the frame's calls moved a bone
Moved(pb) == VSub[Vec3[Col[MatrixAfter(pb), 4]], HeadOf(pb)]

\* a location key of the bone at the processed frame holds its location
Keyed(pb) ==
    \E k \in fKeys : /\ k.pb = pb.name
                     /\ k.frame = fFrames[fIdx]
                     /\ k.location = LocationAfter(pb)

\* the offsets of the enabled feet
EnabledOffsets == {Lowest(s) : s \in {t \in Sides : Enabled(t)}}

\* C9: an FK foot's required lift is the maximum of
\* -normal . (point - origin) over its contact points (marker heads, or toe
\* tail, toe head and derived heel); without a plane object the normal is
\* (0,0,1) and the origin (0,0,0).
C9_FkOffsetIsMaxOverContacts ==
    (FkProcessed /\ fRig.variant # "none") =>
        /\ fScn.McpFloorLeft => fLocals.lOffset = <<Lowest("L")>>
        /\ fScn.McpFloorRight => fLocals.rOffset = <<Lowest("R")>>

\* C9 witness: no plane, no markers; the left foot's derived heel is the
\* lowest point (3 below), the right foot's toe tail is (1 below).
C9_Witness ==
    /\ FkProcessed
    /\ fPlane.none
    /\ fRig.variant = "toe"
    /\ fLocals.lOffset = <<3>>
    /\ fLocals.rOffset = <<1>>
    /\ PointOffset(TailOf(fPose.toe["L"])) < 3
    /\ PointOffset(HeadOf(fPose.toe["L"])) < 3

\* C6: in FK mode the hips are moved once per frame by the maximum of the
\* enabled feet's offsets when that is positive, and not at all otherwise.
C6_FkHipsLiftedByMax ==
    FkProcessed =>
        \A m \in {IF EnabledOffsets = {} THEN 0 ELSE MaxOf(EnabledOffsets)} :
            IF m > 0
            THEN /\ Len(fCalls) = 1
                 /\ fCalls[1].pb = fPose.hips.name
                 /\ fCalls[1].offset = m
                 /\ Moved(fPose.hips) = VScale[m, PlaneNormal]
            ELSE fCalls = <<>>

\* C6 witness: both feet enabled, the left 1 below and the right 3 below;
\* the hips were moved once, by 3.
C6_Witness ==
    /\ FkProcessed
    /\ fScn.McpFloorLeft /\ fScn.McpFloorRight
    /\ Lowest("L") = 1
    /\ Lowest("R") = 3
    /\ Len(fCalls) = 1
    /\ fCalls[1].offset = 3

\* the offset floorIkFoot has for a foot: 0 for a foot that is off
IkSideOffset(side) == IF Enabled(side) THEN Lowest(side) ELSE 0

\* C7: in IK mode each enabled foot's control bone is lifted by its own
\* positive offset, and with hip lifting on the root is lifted by the
\* minimum of the two feet's offsets when that is positive.
C7_IkFeetAndRoot ==
    IkProcessed =>
        /\ \A s \in Sides :
              \A d \in {Lowest(s)} :
                 IF Enabled(s) /\ d > 0
                 THEN /\ Len(CallsOf(fPose.ik[s].name)) = 1
                      /\ CallsOf(fPose.ik[s].name)[1].offset = d
                 ELSE CallsOf(fPose.ik[s].name) = <<>>
        /\ \A h \in {MinOf({IkSideOffset("L"), IkSideOffset("R")})} :
              IF fScn.McpFloorHips /\ h > 0
              THEN /\ Len(CallsOf(fPose.root.name)) = 1
                   /\ CallsOf(fPose.root.name)[1].offset = h
              ELSE CallsOf(fPose.root.name) = <<>>

\* C7 witness: hip lifting on, the left foot 1 below and the right 3 below:
\* three calls, the root lifted by 1.
C7_Witness ==
    /\ IkProcessed
    /\ fScn.McpFloorHips
    /\ IkSideOffset("L") = 1
    /\ IkSideOffset("R") = 3
    /\ Len(fCalls) = 3
    /\ fCalls[3].pb = fPose.root.name
    /\ fCalls[3].offset = 1

\* the lift a foot's controlling bone gets in the frame: the foot's own
\* offset for an IK control bone (and the root's lift on top when the bone
\* is a child of the root), the largest enabled offset for the FK hips
FrameLift(side) ==
    IF fUseIk
    THEN Lowest(side)
         + (IF fPose.ik[side].hasParent /\ CallsOf(fPose.root.name) # <<>>
            THEN CallsOf(fPose.root.name)[1].offset ELSE 0)
    ELSE MaxOf(EnabledOffsets)

\* C8 as claimed: for a foot whose lowest contact point is d > 0 below the
\* plane at a processed frame, the controlling bone ends d times the normal
\* from where it was, and is keyed at that frame.
C8_LiftedByOwnOffset ==
    (FkProcessed \/ IkProcessed) =>
        \A s \in {t \in Sides : Enabled(t) /\ ContactPoints(t) # {}} :
            \A d \in {Lowest(s)} :
                d > 0 => /\ Moved(Control(s)) = VScale[d, PlaneNormal]
                         /\ Keyed(Control(s))

\* C8 amended: the controlling bone is keyed at that frame and ends L times
\* the normal from where it was, L being the lift of the frame: the largest
\* enabled foot offset for the FK hips, the foot's own offset for an IK
\* control bone (plus the root's lift when it is a child of the root).
C8_LiftedByFrameLift ==
    (FkProcessed \/ IkProcessed) =>
        \A s \in {t \in Sides : Enabled(t) /\ ContactPoints(t) # {}} :
            \A d \in {Lowest(s)} :
                d > 0 => /\ Moved(Control(s)) =
                               VScale[FrameLift(s), PlaneNormal]
                         /\ FrameLift(s) >= d
                         /\ Keyed(Control(s))

\* C8 witness: FK feet on the upright plane, both enabled and below it by
\* different amounts; the hips are keyed and moved by the larger one.
C8_Witness ==
    /\ FkProcessed
    /\ ~fPlane.none
    /\ PlaneNormal = <<0, 0 - 1, 0>>
    /\ fScn.McpFloorLeft /\ fScn.McpFloorRight
    /\ Lowest("L") > 0
    /\ Lowest("R") > Lowest("L")
    /\ Keyed(fPose.hips)
    /\ Moved(fPose.hips) = VScale[Lowest("R"), PlaneNormal]

\* the contact points of a foot after the frame's calls, the foot following
\* its controlling bone rigidly
ContactPointsAfter(side) ==
    IF fUseIk
    THEN \* head and tail of the control bone as evaluated after the calls
         UNION { {Vec3[Col[after, 4]],
                  VAdd[Vec3[Col[after, 4]],
                       VScale[fPose.ik[side].length, Vec3[Col[after, 2]]]]} :
                    after \in {MatrixAfter(fPose.ik[side])} }
    ELSE UNION { {VAdd[p, moved] : p \in FkContactPoints(side)} :
                    moved \in {Moved(fPose.hips)} }

\* C10: after a frame is processed no contact point of an enabled foot is
\* below the plane, in FK mode and in IK mode.
C10_NoContactBelow ==
    (FkProcessed \/ IkProcessed) =>
        \A s \in {t \in Sides : Enabled(t)} :
            \A p \in ContactPointsAfter(s) : PointOffset(p) <= 0

\* C10 witness: an IK foot whose tail was 4 below the raised plane and
\* whose head was 2 below; after the frame its tail is on the plane.
C10_Witness ==
    /\ IkProcessed
    /\ ~fPlane.none
    /\ PlaneNormal = <<0, 0, 1>>
    /\ fScn.McpFloorRight
    /\ Lowest("R") = 4
    /\ PointOffset(HeadOf(fPose.ik["R"])) = 2
    /\ \E p \in ContactPointsAfter("R") : PointOffset(p) = 0

-----------------------------------------------------------------------------
(* floorIkFoot: the keys the offsets are written on *)

\* C11 as claimed: in IK floor mode every offset write of the pass lands on
\* a frame at which the written bone's location already had an explicit
\* key, put there by the fillKeyFrames calls that precede the frame loop.
C11_WritesOnFilledKeys ==
    [][(fPc = "frames" /\ fUseIk /\ fIdx' = fIdx + 1)
          => \A i \in 1..Len(fCalls') :
                \E k \in fKeys : /\ k.pb = fCalls'[i].pb
                                 /\ k.frame = fFrames[fIdx']]_vars

-----------------------------------------------------------------------------
(* fkik.py: Bender.limbsBendPositive, minimizeFCurve and the run of         *)
(* MCP_OT_LimbsBendPositive                                                 *)

\* the values a key of a bend-axis curve takes
BendValues == 0..2

\* the key times of a bend-axis curve
BendTimes == 0..MaxFrame

\* getTrgBone found no bone
NoTrgBone == [pb |-> FALSE, fcu |-> FALSE, kp |-> <<>>]

\* findBoneFCurve found no curve for the bone
NoFCurve == [pb |-> TRUE, fcu |-> FALSE, kp |-> <<>>]

\* a bone with the X-rotation curve whose keyframe_points are kp
FCurve(kp) == [pb |-> TRUE, fcu |-> TRUE, kp |-> kp]

\* the curves tried: every curve with at least one key
CurveChoices ==
    { FCurve(kp) : kp \in UNION { [T -> BendValues] :
                                    T \in (SUBSET BendTimes) \ {{}} } }

\* the least element of a non-empty set of times
FirstOf(T) == CHOOSE t \in T : \A u \in T : t <= u

\* fcu.evaluate(0): the key at time 0 or, no key time being negative, the
\* value the curve holds before its first key (constant extrapolation)
evaluate0(kp) ==
    IF 0 \in DOMAIN kp THEN kp[0] ELSE kp[FirstOf(DOMAIN kp)]

\* minimizeFCurve without the test t0 <= t <= t1: every key below y0 is raised
minimizeFCurveAllKeys(c, frs) ==
    IF ~c.pb THEN c
    ELSE IF ~c.fcu THEN c
    ELSE LET y0 == evaluate0(c.kp)
         IN  [c EXCEPT !.kp =
                 [t \in DOMAIN c.kp |->
                     IF c.kp[t] < y0 THEN y0 ELSE c.kp[t]]]

\* Bender.minimizeFCurve(pb, rig, 0, frames)
minimizeFCurve(c, frs) ==
    IF ~c.pb THEN c
    ELSE IF ~c.fcu THEN c
    ELSE LET y0 == evaluate0(c.kp)
             t0 == frs[1]
             t1 == frs[Len(frs)]
         IN  [c EXCEPT !.kp =
                 [t \in DOMAIN c.kp |->
                     IF t >= t0 /\ t <= t1 /\ c.kp[t] < y0
                     THEN y0 ELSE c.kp[t]]]

\* Bender.limbsBendPositive: the bones minimizeFCurve is called for, in order
limbsBendPositive(useElbows, useKnees) ==
    (IF useElbows THEN <<"forearm.L", "forearm.R">> ELSE <<>>)
    \o (IF useKnees THEN <<"shin.L", "shin.R">> ELSE <<>>)

\* every key time of the action: those of the bend curves and of the others
ActionKeyTimes(curves, others) ==
    others \cup UNION { DOMAIN curves[b].kp : b \in DOMAIN curves }

InitBend ==
    /\ bCurves \in { [b \in {"forearm.L", "forearm.R", "shin.L", "shin.R"} |->
                        CASE b = "forearm.L" -> c
                          [] b = "forearm.R" -> NoTrgBone
                          [] b = "shin.L"    -> NoFCurve
                          [] b = "shin.R"    -> d] :
                     c \in CurveChoices,
                     d \in {FCurve([t \in {1} |-> 1]),
                            FCurve([t \in {0, 1} |-> 1 - t])} }
    /\ bKeyTimes \in SUBSET {1}
    /\ bOp \in [useElbows : BOOLEAN, useKnees : BOOLEAN,
                startFrame : BendTimes, endFrame : BendTimes]
    /\ bPc = "idle"
    /\ bFrames = <<>>
    /\ bDone = 0
    /\ bBefore = <<>>
    /\ IdleTransfer
    /\ IdleMatrix
    /\ IdleFloor
    /\ IdlePole
    /\ IdleToe
    /\ IdleKeys
    /\ IdleRange

notBend == <<transferVars, matrixVars, floorVars,
      poleVars,
      toeVars,
      keysVars,
      rangeVars>>

\* MCP_OT_LimbsBendPositive.run up to limbsBendPositive: frames
BendRun ==
    /\ bPc = "idle"
    /\ \E fr \in {getActiveFrames(ActionKeyTimes(bCurves, bKeyTimes),
                                  bOp.startFrame, bOp.endFrame)} :
          /\ bFrames' = fr.frames
          /\ bPc' = IF fr.err # "" THEN "failed" ELSE "bending"
    /\ bBefore' = bCurves
    /\ UNCHANGED <<bCurves, bKeyTimes, bOp, bDone>>
    /\ UNCHANGED notBend

\* one minimizeFCurve call of limbsBendPositive
BendMinimize ==
    /\ bPc = "bending"
    /\ bDone < Len(limbsBendPositive(bOp.useElbows, bOp.useKnees))
    /\ \E b \in {limbsBendPositive(bOp.useElbows, bOp.useKnees)[bDone + 1]} :
          bCurves' = [bCurves EXCEPT ![b] = minimizeFCurve(bCurves[b], bFrames)]
    /\ bDone' = bDone + 1
    /\ UNCHANGED <<bKeyTimes, bOp, bPc, bFrames, bBefore>>
    /\ UNCHANGED notBend

\* limbsBendPositive returns: "Limbs bent positive"
BendEnd ==
    /\ bPc = "bending"
    /\ bDone = Len(limbsBendPositive(bOp.useElbows, bOp.useKnees))
    /\ bPc' = "done"
    /\ UNCHANGED <<bCurves, bKeyTimes, bOp, bFrames, bDone, bBefore>>
    /\ UNCHANGED notBend

NextBend ==
    \/ BendRun
    \/ BendMinimize
    \/ BendEnd

SpecBend == InitBend /\ [][NextBend]_vars

\* C12 as claimed: after limb straightening every key of a straightened
\* bend-axis curve whose time lies in the frame range has a value not below
\* the curve's value at the first frame of the range (taken here for the
\* curves that have a key at that frame, where that value is the key's).
C12_NotBelowFirstFrame ==
    bPc = "done" =>
        \A b \in Range(limbsBendPositive(bOp.useElbows, bOp.useKnees)) :
            (bCurves[b].fcu /\ bFrames[1] \in DOMAIN bCurves[b].kp) =>
                \A t \in DOMAIN bCurves[b].kp :
                    (t >= bFrames[1] /\ t <= bFrames[Len(bFrames)]) =>
                        bCurves[b].kp[t] >= bBefore[b].kp[bFrames[1]]

-----------------------------------------------------------------------------
(* fkik.py: matchPoleTarget *)

\* Vector.cross
Cross[u \in Vec, v \in Vec] ==
    <<u[2] * v[3] - u[3] * v[2],
      u[3] * v[1] - u[1] * v[3],
      u[1] * v[2] - u[2] * v[1]>>

\* axes x = (0,0,1), y = (1,1,0), z = (1,0,0): a bone whose Y axis leans
\* towards its Z axis
Skew == << <<0, 1, 1>>, <<0, 1, 0>>, <<1, 0, 0>> >>

\* the vector has a whole-number length
WholeLength(v) == \E k \in 0..Dot[v, v] : k * k = Dot[v, v]

\* the direction d of matchPoleTarget before d.normalize(), n being normalized
PoleDirection(ay, by, n) ==
    VSub[VSub[ay, by], VScale[Dot[VSub[ay, by], n], n]]

\* matchPoleTarget with the offset added also when the Y axes are parallel
matchPoleTargetNoFallback(pb, above, below) ==
    LET ay   == Vec3[Col[above, 2]]
        p0   == Vec3[Col[below, 4]]
        p    == VAdd[p0, VScale[6 * pb.length, ay]]
        pmat == getPoseMatrix(Affine[Id3, p], pb)
    IN  IF pmat.err # "" THEN [err |-> pmat.err, p |-> p, location |-> <<>>]
        ELSE [err |-> "", p |-> p, location |-> ToTranslation[pmat.m]]

\* matchPoleTarget(pb, above, below): the pole point p and the location
\* that insertLocation writes.  The entries are whole numbers, so the
\* length of n is above 1e-4 exactly when n is not the zero vector.
matchPoleTarget(pb, above, below) ==
    LET ay   == Vec3[Col[above, 2]]
        by   == Vec3[Col[below, 2]]
        az   == Vec3[Col[above, 3]]
        p0   == Vec3[Col[below, 4]]
        n    == Cross[ay, by]
        d    == NormalizedVec[PoleDirection(ay, by, NormalizedVec[n])]
        p    == IF Dot[n, n] > 0
                THEN VAdd[p0, VScale[6 * pb.length,
                                     IF Dot[d, az] > 0 THEN VScale[0 - 1, d]
                                     ELSE d]]
                ELSE p0
        pmat == getPoseMatrix(Affine[Id3, p], pb)
    IN  IF pmat.err # "" THEN [err |-> pmat.err, p |-> p, location |-> <<>>]
        ELSE [err |-> "", p |-> p, location |-> ToTranslation[pmat.m]]

\* the matrices of the two segments
SegmentChoices ==
    { Affine[r, t] : r \in {Id3, Flip, Shear, Skew, Mirror},
                     t \in {<<0, 0, 0>>, <<1, 2, 3>>} }

\* the pairs above, below on which every normalize() of matchPoleTarget
\* gives whole numbers
SegmentPairs ==
    { ab \in SegmentChoices \X SegmentChoices :
        LET ay == Vec3[Col[ab[1], 2]]
            by == Vec3[Col[ab[2], 2]]
            n  == Cross[ay, by]
        IN  /\ WholeLength(n)
            /\ Dot[n, n] > 0 =>
                  WholeLength(PoleDirection(ay, by, NormalizedVec[n])) }

\* the pole-target bones: without a parent and with one, rotated or not
PoleBones ==
    { Bone(<<"elbow.pt.ik", "L">>, r, FALSE, Id4, Id4, b, 1) :
         r \in {Affine[RotX, <<1, 0, 2>>], Affine[Shear, <<2, -1, 1>>]},
         b \in {Id4, Affine[RotZ, <<5, 5, 5>>]} }
    \cup
    { Bone(<<"elbow.pt.ik", "L">>, r, TRUE, Affine[RotZ, <<0, 3, 0>>], pm, b, 1) :
         r \in {Affine[RotX, <<1, 0, 2>>], Affine[Shear, <<2, -1, 1>>]},
         pm \in {Affine[RotX, <<1, 0, 2>>], Affine[Mirror, <<0, 0, 4>>]},
         b \in {Id4, Affine[RotZ, <<5, 5, 5>>]} }

InitPole ==
    /\ pBone \in PoleBones
    /\ \E ab \in SegmentPairs : pAbove = ab[1] /\ pBelow = ab[2]
    /\ pFrame \in 1..MaxFrame
    /\ pPc = "start"
    /\ pOut = <<>>
    /\ pKeys \in { {}, {[pb |-> <<"elbow.pt.ik", "L">>, frame |-> 1,
                         location |-> <<9, 9, 9>>]} }
    /\ IdleTransfer
    /\ IdleMatrix
    /\ IdleFloor
    /\ IdleBend
    /\ IdleToe
    /\ IdleKeys
    /\ IdleRange

notPole == <<transferVars, matrixVars, floorVars, bendVars,
      toeVars,
      keysVars,
      rangeVars>>

\* matchPoleTarget(pb, above, below), insertLocation included
MatchPoleTarget ==
    /\ pPc = "start"
    /\ \E out \in {matchPoleTarget(pBone, pAbove, pBelow)} :
          /\ pOut' = out
          /\ pPc' = IF out.err # "" THEN "failed" ELSE "done"
          /\ pKeys' = IF out.err # "" THEN pKeys
                      ELSE insertLocation(pKeys, pBone, pFrame, out.location)
    /\ UNCHANGED <<pBone, pAbove, pBelow, pFrame>>
    /\ UNCHANGED notPole

NextPole == MatchPoleTarget

SpecPole == InitPole /\ [][NextPole]_vars

\* the two segment Y axes are parallel: their cross product is zero
YAxesParallel ==
    Cross[Vec3[Col[pAbove, 2]], Vec3[Col[pBelow, 2]]] = <<0, 0, 0>>

\* C13: when the two segment Y axes are parallel the call raises no error,
\* the pole point is the below-bone's head, the bone evaluated with the
\* written location stands exactly there, and the location is keyed at the
\* current frame.
C13_ParallelFallsBackToHead ==
    (pPc # "start" /\ YAxesParallel) =>
        /\ pPc = "done"
        /\ pOut.p = ToTranslation[pBelow]
        /\ ToTranslation[Evaluated(pBone, pOut.location, pBone.parMat)]
              = ToTranslation[pBelow]
        /\ \E k \in pKeys : /\ k.pb = pBone.name
                            /\ k.frame = pFrame
                            /\ k.location = pOut.location
        /\ Cardinality({k \in pKeys : k.pb = pBone.name /\ k.frame = pFrame}) = 1

\* C13 witness: opposite Y axes (a half turn apart), the below bone's head
\* at (1,2,3), a pole-target bone with a parent; the call was made
C13_Witness ==
    /\ pPc = "done"
    /\ YAxesParallel
    /\ Vec3[Col[pAbove, 2]] # Vec3[Col[pBelow, 2]]
    /\ pOut.p = <<1, 2, 3>>
    /\ pBone.hasParent
    /\ pOut.location # <<1, 2, 3>>

-----------------------------------------------------------------------------
(* floor.py: the toe pass -- toesBelowBall, toeBelowBall,                   *)
(* offsetToeRotation, keepToeRotationNegative                               *)

\* angles are counted in quarter turns
Cos4(q) == CASE q % 4 = 0 -> 1 [] q % 4 = 1 -> 0 [] q % 4 = 2 -> 0 - 1
             [] q % 4 = 3 -> 0

Sin4(q) == CASE q % 4 = 0 -> 0 [] q % 4 = 1 -> 1 [] q % 4 = 2 -> 0
             [] q % 4 = 3 -> 0 - 1

\* the rotation by q quarter turns about an axis
AxisRot(axis, q) ==
    CASE axis = "X" -> << <<1, 0, 0>>,
                          <<0, Cos4(q), 0 - Sin4(q)>>,
                          <<0, Sin4(q), Cos4(q)>> >>
      [] axis = "Y" -> << <<Cos4(q), 0, Sin4(q)>>,
                          <<0, 1, 0>>,
                          <<0 - Sin4(q), 0, Cos4(q)>> >>
      [] axis = "Z" -> << <<Cos4(q), 0 - Sin4(q), 0>>,
                          <<Sin4(q), Cos4(q), 0>>,
                          <<0, 0, 1>> >>

\* Euler.to_matrix() of a 'YZX' Euler: the turn about Y, then Z, then X
EulerToMatrix(e) ==
    MatMul[MatMul[AxisRot("X", e.x), AxisRot("Z", e.z)], AxisRot("Y", e.y)]

\* the Euler triples of the model: at most a quarter turn about one axis.
\* Each gives a different matrix, so the decomposition is unique.
SingleAxisEulers ==
    { [x |-> a, y |-> 0, z |-> 0] : a \in {0 - 1, 0, 1} }
    \cup { [x |-> 0, y |-> a, z |-> 0] : a \in {0 - 1, 1} }
    \cup { [x |-> 0, y |-> 0, z |-> a] : a \in {0 - 1, 1} }

\* the matrices of those triples, worked out once
EulerTable == [e \in SingleAxisEulers |-> EulerToMatrix(e)]

\* Matrix.to_euler('YZX') of a 3x3 matrix
ToEulerYZX(m) == CHOOSE e \in SingleAxisEulers : EulerTable[e] = m

\* the rotations a toe is posed with
ToeRotations == { EulerTable[e] : e \in SingleAxisEulers }

\* keepToeRotationNegative clamping the pitch the other way
keepToeRotationPositive(pmat) ==
    LET euler == ToEulerYZX(To3x3[pmat])
    IN  IF euler.x < 0
        THEN Affine[EulerTable[[euler EXCEPT !.x = 0]], ToTranslation[pmat]]
        ELSE pmat

\* keepToeRotationNegative(pmat, scn)
keepToeRotationNegative(pmat) ==
    LET euler == ToEulerYZX(To3x3[pmat])
    IN  IF euler.x > 0
        THEN Affine[EulerTable[[euler EXCEPT !.x = 0]], ToTranslation[pmat]]
        ELSE pmat

\* getProjection(vec, ez)
getProjection(vec, ez) == Dot[ez, Vec3[vec]]

\* retarget.correctMatrixForLocks(pmat, order, lock, toe, useLimits): the
\* matrices it may return -- any toe rotation, with the translation of pmat
\* or none
correctMatrixForLocks(pmat) ==
    { Affine[r, t] : r \in ToeRotations,
                     t \in {ToTranslation[pmat], <<0, 0, 0>>} }

\* the global matrix offsetToeRotation builds: Y axis projected onto the
\* floor plane, X axis made orthogonal to it, Z = X x Y, the toe's head
offsetToeGlobal(toe, ez) ==
    LET y0 == Vec3[Col[toe.matrix, 2]]
        y  == NormalizedVec[VSub[y0, VScale[Dot[ez, y0], ez]]]
        x0 == Vec3[Col[toe.matrix, 1]]
        x  == NormalizedVec[VSub[x0, VScale[Dot[x0, y], y]]]
        z  == Cross[x, y]
    IN  Affine[FromCols[<<x, y, z>>], Vec3[Col[toe.matrix, 4]]]

\* offsetToeRotation(toe, ez, factor, order, lock, context): the matrices
\* it may return
offsetToeRotation(toe, ez) ==
    LET pmat == getPoseMatrix(offsetToeGlobal(toe, ez), toe)
    IN  IF pmat.err # "" THEN {pmat}
        ELSE { [err |-> "", m |-> c] : c \in correctMatrixForLocks(pmat.m) }

\* toeBelowBall: the test for the correction path with the markers,
\* taking it also when the two heights are equal
toePathNotBelow(zToe, zBall) == IF zToe >= zBall THEN "offset" ELSE "keep"

\* toeBelowBall: the test for the correction path with the markers
toePath(zToe, zBall) == IF zToe > zBall THEN "offset" ELSE "keep"

\* toesBelowBall: useIk = rig["MhaLegIk_L"] or rig["MhaLegIk_R"], False on
\* a KeyError
toeUseIk(props) ==
    IF "MhaLegIk_L" \notin DOMAIN props THEN FALSE
    ELSE IF props["MhaLegIk_L"] # 0 THEN TRUE
    ELSE IF "MhaLegIk_R" \notin DOMAIN props THEN FALSE
    ELSE props["MhaLegIk_R"] # 0

\* utils.insertRotation: pb.keyframe_insert of the rotation of mat at the
\* current frame; a key already at that frame is replaced
insertRotationKey(keys, pb, frame, mat) ==
    {k \in keys : ~(k.pb = pb.name /\ k.frame = frame)}
        \cup {[pb |-> pb.name, frame |-> frame, rotation |-> To3x3[mat]]}


\* an object of the view layer
Object(type, name, select) == [type |-> type, name |-> name, select |-> select]

\* the errors of getRigAndPlane
TwoArmatures == "MocapError: Two armatures selected"

TwoMeshes == "MocapError: Two meshes selected"

NoRigSelected == "MocapError: No rig selected"

RECURSIVE getRigAndPlaneLastFrom(_, _, _)
\* the loop of getRigAndPlane taking the last armature and the last mesh
\* selected instead of raising
getRigAndPlaneLastFrom(objects, rig, plane) ==
    IF objects = <<>>
    THEN IF rig = "" THEN [err |-> NoRigSelected, rig |-> "", plane |-> ""]
         ELSE [err |-> "", rig |-> rig, plane |-> plane]
    ELSE LET ob == Head(objects)
         IN  IF ~ob.select
             THEN getRigAndPlaneLastFrom(Tail(objects), rig, plane)
             ELSE IF ob.type = "ARMATURE"
             THEN getRigAndPlaneLastFrom(Tail(objects), ob.name, plane)
             ELSE IF ob.type = "MESH"
             THEN getRigAndPlaneLastFrom(Tail(objects), rig, ob.name)
             ELSE getRigAndPlaneLastFrom(Tail(objects), rig, plane)

RECURSIVE getRigAndPlaneFrom(_, _, _)
\* the loop of getRigAndPlane over the rest of context.view_layer.objects,
\* rig and plane being the locals ("" for None), and what follows the loop
getRigAndPlaneFrom(objects, rig, plane) ==
    IF objects = <<>>
    THEN IF rig = "" THEN [err |-> NoRigSelected, rig |-> "", plane |-> ""]
         ELSE [err |-> "", rig |-> rig, plane |-> plane]
    ELSE LET ob == Head(objects)
         IN  IF ~ob.select
             THEN getRigAndPlaneFrom(Tail(objects), rig, plane)
             ELSE IF ob.type = "ARMATURE"
             THEN IF rig # ""
                  THEN [err |-> TwoArmatures, rig |-> "", plane |-> ""]
                  ELSE getRigAndPlaneFrom(Tail(objects), ob.name, plane)
             ELSE IF ob.type = "MESH"
             THEN IF plane # ""
                  THEN [err |-> TwoMeshes, rig |-> "", plane |-> ""]
                  ELSE getRigAndPlaneFrom(Tail(objects), rig, ob.name)
             ELSE getRigAndPlaneFrom(Tail(objects), rig, plane)

\* getRigAndPlane taking the last armature and mesh selected
getRigAndPlaneLast(objects) == getRigAndPlaneLastFrom(objects, "", "")

\* getRigAndPlane(context)
getRigAndPlane(objects) == getRigAndPlaneFrom(objects, "", "")

\* the view layers tried.  "rig" is the armature the pass is followed on
\* and "plane" the mesh of the scene, selected when the pass has a plane;
\* the others are a second armature, a second mesh and a light
ViewLayers(plane) ==
    { IF plane.none
      THEN << Object("LIGHT", "sun", TRUE), Object("MESH", "plane", FALSE),
              Object("ARMATURE", "rig", TRUE),
              Object("ARMATURE", "rig2", FALSE) >>
      ELSE << Object("MESH", "plane", TRUE), Object("ARMATURE", "rig", TRUE),
              Object("MESH", "plane2", FALSE) >>,
      << Object("ARMATURE", "rig", TRUE), Object("LIGHT", "sun", TRUE),
         Object("ARMATURE", "rig2", TRUE) >>,
      << Object("MESH", "plane", TRUE), Object("ARMATURE", "rig", TRUE),
         Object("MESH", "plane2", TRUE) >>,
      << Object("MESH", "plane", TRUE), Object("ARMATURE", "rig", FALSE) >> }

\* what execute has done before it returns
Executing == [returned |-> "", dialog |-> FALSE]

\* MCP_OT_OffsetToe.execute / MCP_OT_FloorFoot.execute after the pass
\* ended with the error err ("" for none): a MocapError is caught, the
\* error dialog is invoked and the operator returns {'FINISHED'}; any other
\* exception leaves execute
MocapErrors ==
    {TwoArmatures, TwoMeshes, NoRigSelected,
     "MocapError: Toe Below Ball only for FK feet"}

execute(err) ==
    IF err = "" THEN [returned |-> "FINISHED", dialog |-> FALSE]
    ELSE IF err \in MocapErrors THEN [returned |-> "FINISHED", dialog |-> TRUE]
    ELSE [returned |-> "exception", dialog |-> FALSE]

\* the rigs: each leg IK property absent, 0 or 1; with the foot markers or
\* without them
ToeRigs ==
    { [legIk |-> p, markers |-> m] :
         p \in UNION { [D -> {0, 1}] :
                          D \in SUBSET {"MhaLegIk_L", "MhaLegIk_R"} },
         m \in BOOLEAN }

\* the toe bone of a side, posed with matrix_basis basis: a child of the
\* foot
ToePoseBone(side, basis) ==
    Bone(<<"toe", side>>, Affine[RotX, <<0, 0, 3>>], TRUE, Id4,
         Affine[RotZ, <<0, 1, 0>>], basis, ToeLength)

\* where the toe and the ball marker are: the toe marker higher than the
\* ball marker, lower, or at its height (along (0,0,1) and along (0,-1,0))
MarkerPlaces ==
    << [mToe |-> <<0, 0 - 2, 2>>, mBall |-> <<0, 0 - 1, 1>>],
       [mToe |-> <<0, 1, 0>>,     mBall |-> <<0, 0 - 1, 1>>],
       [mToe |-> <<3, 0 - 1, 1>>, mBall |-> <<0, 0 - 1, 1>>] >>

\* the poses of a toe in a frame: its matrix_basis and the two markers
ToePoseList ==
    LET rots == << Id3, AxisRot("X", 1), AxisRot("X", 0 - 1),
                   AxisRot("Z", 1), AxisRot("Y", 0 - 1) >>
    IN  [i \in 1..15 |->
            [basis |-> Affine[rots[((i - 1) % 5) + 1],
                              IF i % 2 = 0 THEN <<0, 0, 0>> ELSE <<0, 2, 0>>],
             mToe  |-> MarkerPlaces[((i - 1) \div 5) + 1].mToe,
             mBall |-> MarkerPlaces[((i - 1) \div 5) + 1].mBall]]

\* the toe bones in those poses, worked out once
ToeBones ==
    [s \in Sides |-> [i \in 1..15 |-> ToePoseBone(s, ToePoseList[i].basis)]]

\* ez and origin of the planes, worked out once
PlaneInfos == [p \in PlaneChoices |-> getPlaneInfo(p)]

\* the animations: which pose of the list each toe has at each frame, the
\* poses taken in turn from the list, starting anywhere
ToeAnims ==
    { [sf \in Sides \X (1..MaxFrame) |->
          ((a + 4 * sf[2] + (IF sf[1] = "L" THEN 0 ELSE 7)) % 15) + 1] :
      a \in 0..14 }

InitToe ==
    /\ tRig \in ToeRigs
    /\ tPlane \in PlaneChoices
    /\ tAnim \in ToeAnims
    /\ tKeyTimes \in SUBSET (1..MaxFrame)
    /\ tLayers = {1, 2}
    /\ tFrame = 0
    /\ tPc = "idle"
    /\ tErr = ""
    /\ tFrames = <<>>
    /\ tIdx = 0
    /\ tWritten = <<>>
    /\ tKeys = {}
    /\ tBefore = <<>>
    /\ tView \in ViewLayers(tPlane)
    /\ tUsed = <<>>
    /\ tExec = Executing
    /\ IdleTransfer
    /\ IdleMatrix
    /\ IdleFloor
    /\ IdleBend
    /\ IdlePole
    /\ IdleKeys
    /\ IdleRange

notToe == <<transferVars, matrixVars, floorVars, bendVars, poleVars,
      keysVars,
      rangeVars>>

toeInputs == <<tRig, tPlane, tAnim, tKeyTimes, tView>>

\* MCP_OT_OffsetToe.execute and toesBelowBall up to the first toeBelowBall:
\* getRigAndPlane, the IK test, the frames
ToeInvoke ==
    /\ tPc = "idle"
    /\ tBefore' = [frame |-> tFrame, layers |-> tLayers, keys |-> tKeys]
    /\ \E sel \in {getRigAndPlane(tView)} :
          IF sel.err # ""
          THEN /\ tPc' = "failed"
               /\ tErr' = sel.err
               /\ tExec' = execute(sel.err)
               /\ UNCHANGED <<tFrames, tUsed>>
          ELSE /\ tUsed' = [rig |-> sel.rig, plane |-> sel.plane]
               /\ IF toeUseIk(tRig.legIk)
                  THEN /\ tPc' = "failed"
                       /\ tErr' = "MocapError: Toe Below Ball only for FK feet"
                       /\ tExec' = execute("MocapError: Toe Below Ball only for FK feet")
                       /\ UNCHANGED tFrames
                  ELSE /\ tPc' = "L"
                       /\ tFrames' = getActiveFramesBetweenMarkers(tKeyTimes, <<>>)
                       /\ UNCHANGED <<tErr, tExec>>
    /\ UNCHANGED <<toeInputs, tLayers, tFrame, tIdx, tWritten, tKeys>>
    /\ UNCHANGED notToe

\* toeBelowBall: one turn of the frame loop, with the markers or without
ToeFrame ==
    /\ tPc \in {"L", "R"}
    /\ tIdx < Len(tFrames)
    /\ \E frame \in {tFrames[tIdx + 1]}, info \in {PlaneInfos[tPlane]} :
       \E pose \in {ToePoseList[tAnim[<<tPc, frame>>]]} :
       \E toe \in {ToeBones[tPc][tAnim[<<tPc, frame>>]]} :
       \E zToe \in {getProjection(pose.mToe, info.ez)},
          zBall \in {getProjection(pose.mBall, info.ez)},
          dzToe \in {getProjection(Col[toe.matrix, 2], info.ez)} :
       \E path \in {IF tRig.markers THEN toePath(zToe, zBall)
                    ELSE IF dzToe > 0 THEN "offset" ELSE "keep"} :
       \E pmat0 \in (IF path = "offset" THEN offsetToeRotation(toe, info.ez)
                     ELSE {getPoseMatrix(toe.matrix, toe)}) :
          /\ tFrame' = frame
          /\ IF pmat0.err # ""
             THEN /\ tPc' = "failed"
                  /\ tErr' = pmat0.err
                  /\ tExec' = execute(pmat0.err)
                  /\ UNCHANGED <<tWritten, tKeys>>
             ELSE \E pmat \in {keepToeRotationNegative(pmat0.m)} :
                  /\ tWritten' = [side |-> tPc, frame |-> frame,
                                  basis |-> pose.basis, zToe |-> zToe,
                                  zBall |-> zBall, path |-> path,
                                  pmat0 |-> pmat0.m, pmat |-> pmat]
                  /\ tKeys' = insertRotationKey(tKeys, toe, frame, pmat)
                  /\ UNCHANGED <<tPc, tErr, tExec>>
    /\ tIdx' = tIdx + 1
    /\ UNCHANGED <<toeInputs, tLayers, tFrames, tBefore, tUsed>>
    /\ UNCHANGED notToe

\* toeBelowBall for the left toe returns, the right toe's begins
ToeNextSide ==
    /\ tPc = "L"
    /\ tIdx = Len(tFrames)
    /\ tPc' = "R"
    /\ tIdx' = 0
    /\ UNCHANGED <<toeInputs, tLayers, tFrame, tErr, tFrames, tWritten, tKeys,
                   tBefore, tUsed, tExec>>
    /\ UNCHANGED notToe

\* toesBelowBall ends: rig.data.layers = layers; execute returns
ToeEnd ==
    /\ tPc = "R"
    /\ tIdx = Len(tFrames)
    /\ tPc' = "done"
    /\ tLayers' = tBefore.layers
    /\ tExec' = execute("")
    /\ UNCHANGED <<toeInputs, tFrame, tErr, tFrames, tIdx, tWritten, tKeys,
                   tBefore, tUsed>>
    /\ UNCHANGED notToe

NextToe ==
    \/ ToeInvoke
    \/ ToeFrame
    \/ ToeNextSide
    \/ ToeEnd

SpecToe == InitToe /\ [][NextToe]_vars


-----------------------------------------------------------------------------
(* Properties of the toe pass *)

\* the error toesBelowBall raises for IK feet
ToeIkError == "MocapError: Toe Below Ball only for FK feet"

\* a leg IK property of the rig is set and not zero
ToeIkSwitchOn == \E k \in DOMAIN tRig.legIk : tRig.legIk[k] # 0

\* C14 as claimed: on a rig whose left or right leg IK switch is non-zero
\* the toe pass fails with the error for IK feet, with the current frame,
\* the keys and the layers as they were; with both switches zero or absent
\* it does not raise that error.  (One armature is selected, and at most
\* one mesh.)
C14_IkSwitchFails ==
    (tPc # "idle" /\ tUsed # <<>>) =>
        /\ ToeIkSwitchOn =>
              /\ tPc = "failed"
              /\ tErr = ToeIkError
              /\ tFrame = tBefore.frame
              /\ tKeys = tBefore.keys
              /\ tLayers = tBefore.layers
        /\ ~ToeIkSwitchOn => tErr # ToeIkError

\* a frame was processed: tWritten is that of the last one
ToeProcessed == tWritten # <<>>

\* the rotation keyed for the toe at the last frame processed
ToeKeyed ==
    (CHOOSE k \in tKeys : /\ k.pb = <<"toe", tWritten.side>>
                          /\ k.frame = tWritten.frame).rotation

\* the pitch of a pose matrix: the X of its YZX decomposition
Pitch(m) == ToEulerYZX(To3x3[m]).x

\* the rotation of a pose matrix with its pitch set to 0
PitchZeroed(m) == EulerTable[[ToEulerYZX(To3x3[m]) EXCEPT !.x = 0]]

\* C15 as claimed: with markers the correction path is taken exactly when
\* the toe marker is strictly higher than the ball marker along the plane
\* normal, and when it is not taken the rotation written at the frame is
\* that of the toe's original pose matrix.
C15_KeptUnchanged ==
    (ToeProcessed /\ tRig.markers) =>
        /\ tWritten.path = "offset" <=> tWritten.zToe > tWritten.zBall
        /\ tWritten.path = "keep" => ToeKeyed = To3x3[tWritten.basis]

\* C15 amended: ..., and when it is not taken the matrix handed to the
\* pitch clamp is the toe's original pose matrix: the rotation written is
\* the original one when its pitch is not positive, and the original with
\* the pitch set to 0 otherwise.
C15_KeptUpToClamp ==
    (ToeProcessed /\ tRig.markers) =>
        /\ tWritten.path = "offset" <=> tWritten.zToe > tWritten.zBall
        /\ tWritten.path = "keep" =>
              /\ tWritten.pmat0 = tWritten.basis
              /\ Pitch(tWritten.basis) <= 0 => ToeKeyed = To3x3[tWritten.basis]
              /\ Pitch(tWritten.basis) > 0 =>
                    /\ ToeKeyed = PitchZeroed(tWritten.basis)
                    /\ ToeKeyed # To3x3[tWritten.basis]

\* C15 witness: markers at the same height, so no correction; the toe's
\* original pose is pitched up a quarter turn and the rotation written is
\* the identity
C15_Witness ==
    /\ ToeProcessed
    /\ tRig.markers
    /\ tWritten.zToe = tWritten.zBall
    /\ tWritten.path = "keep"
    /\ To3x3[tWritten.basis] = AxisRot("X", 1)
    /\ ToeKeyed = Id3

\* C16: after a frame the rotation keyed for the toe has a pitch that is
\* not positive, on the correction path and on the other, and the clamp
\* keeps the translation of the pose matrix.
C16_PitchNotPositive ==
    ToeProcessed =>
        /\ ToEulerYZX(ToeKeyed).x <= 0
        /\ ToEulerYZX(To3x3[tWritten.pmat]).x <= 0
        /\ ToTranslation[tWritten.pmat] = ToTranslation[tWritten.pmat0]

\* C16 witness: the correction path, without markers, gave a pose matrix
\* pitched up with a translation; the rotation keyed is the identity and
\* the translation is still there
C16_Witness ==
    /\ ToeProcessed
    /\ ~tRig.markers
    /\ tWritten.path = "offset"
    /\ Pitch(tWritten.pmat0) = 1
    /\ ToTranslation[tWritten.pmat0] # <<0, 0, 0>>
    /\ ToeKeyed = Id3
    /\ ToTranslation[tWritten.pmat] = ToTranslation[tWritten.pmat0]

-----------------------------------------------------------------------------
(* utils.py: the keyframe writer -- insertLocation, insertRotation *)

\* how many calls of the keyframe writer are followed
MaxCalls == 3

\* the rotations of the model: none, and a half turn about X, Y or Z
HalfTurns ==
    { Id3,
      << <<1, 0, 0>>, <<0, 0 - 1, 0>>, <<0, 0, 0 - 1>> >>,
      << <<0 - 1, 0, 0>>, <<0, 1, 0>>, <<0, 0, 0 - 1>> >>,
      Flip }

\* the rotation matrix of a unit quaternion (w, x, y, z)
QuatToMatrix(q) ==
    LET w == q[1]
        x == q[2]
        y == q[3]
        z == q[4]
    IN  << <<1 - 2 * (y * y + z * z), 2 * (x * y - w * z), 2 * (x * z + w * y)>>,
           <<2 * (x * y + w * z), 1 - 2 * (x * x + z * z), 2 * (y * z - w * x)>>,
           <<2 * (x * z - w * y), 2 * (y * z + w * x), 1 - 2 * (x * x + y * y)>> >>

\* the quaternions of those rotations
UnitQuats ==
    { <<1, 0, 0, 0>>, <<0, 1, 0, 0>>, <<0, 0, 1, 0>>, <<0, 0, 0, 1>> }

\* Matrix.to_quaternion()
ToQuaternion(m) == CHOOSE q \in UnitQuats : QuatToMatrix(q) = To3x3[m]

\* the rotation modes a bone is tried with
RotationModes == {"QUATERNION", "XYZ", "YZX", "AXIS_ANGLE"}

\* the Euler orders of the host
EulerOrders == {"XYZ", "XZY", "YXZ", "YZX", "ZXY", "ZYX"}

\* the axis letters of an order, first turn first
OrderAxes(order) ==
    CASE order = "XYZ" -> <<"X", "Y", "Z">>
      [] order = "XZY" -> <<"X", "Z", "Y">>
      [] order = "YXZ" -> <<"Y", "X", "Z">>
      [] order = "YZX" -> <<"Y", "Z", "X">>
      [] order = "ZXY" -> <<"Z", "X", "Y">>
      [] order = "ZYX" -> <<"Z", "Y", "X">>

\* the angle of an Euler about an axis, in quarter turns
EulerAngle(e, axis) ==
    CASE axis = "X" -> e[1] [] axis = "Y" -> e[2] [] axis = "Z" -> e[3]

\* the rotation matrix of an Euler (x, y, z) with the given order
EulerMatrix(e, order) ==
    LET ax == OrderAxes(order)
    IN  MatMul[MatMul[AxisRot(ax[3], EulerAngle(e, ax[3])),
                      AxisRot(ax[2], EulerAngle(e, ax[2]))],
               AxisRot(ax[1], EulerAngle(e, ax[1]))]

\* the Eulers of those rotations: none, and a half turn about one axis
HalfTurnEulers == { <<0, 0, 0>>, <<2, 0, 0>>, <<0, 2, 0>>, <<0, 0, 2>> }

\* Quaternion.to_euler(order): a ValueError when order is no Euler order
QuatToEuler(q, order) ==
    IF order \notin EulerOrders
    THEN [err |-> "ValueError", euler |-> <<>>]
    ELSE [err |-> "",
          euler |-> CHOOSE e \in HalfTurnEulers :
                       EulerMatrix(e, order) = QuatToMatrix(q)]

\* a pose bone: its name, rotation_mode and the values of its location and
\* rotation properties
KeyBone(mode) ==
    [name |-> "toe.L", rotation_mode |-> mode, location |-> <<0, 0, 0>>,
     rotation_quaternion |-> <<1, 0, 0, 0>>,
     rotation_euler |-> <<0, 0, 0>>,
     rotation_axis_angle |-> <<0, 0, 1, 0>>]

\* utils.insertLocation(pb, mat) at the current frame
insertLocationFcu(pb, anim, frame, mat) ==
    [err |-> "",
     pb |-> [pb EXCEPT !.location = ToTranslation[mat]],
     anim |-> keyframe_insert(anim, pb.name, "location", ToTranslation[mat],
                              frame)]

\* utils.insertRotation(pb, mat) at the current frame
insertRotationFcu(pb, anim, frame, mat) ==
    LET q == ToQuaternion(mat)
        e == QuatToEuler(q, pb.rotation_mode)
    IN  IF pb.rotation_mode = "QUATERNION"
        THEN [err |-> "",
              pb |-> [pb EXCEPT !.rotation_quaternion = q],
              anim |-> keyframe_insert(anim, pb.name, "rotation_quaternion",
                                       q, frame)]
        ELSE IF e.err # ""
        THEN [err |-> e.err, pb |-> pb, anim |-> anim]
        ELSE [err |-> "",
              pb |-> [pb EXCEPT !.rotation_euler = e.euler],
              anim |-> keyframe_insert(anim, pb.name, "rotation_euler",
                                       e.euler, frame)]

\* the pose matrices the calls are given
KeyMats ==
    { Affine[r, t] : r \in HalfTurns, t \in {<<0, 0, 0>>, <<1, 2, 3>>} }

\* the animation data the rig starts with: none, no action, an empty
\* action, and an action with keys of the bone at frame 1
KeyAnims ==
    { NoAnimData, NoAction, Action({}, {}),
      Action({[path |-> <<"toe.L", prop, 1>>, extrapolation |-> "LINEAR"] :
                prop \in {"location", "rotation_quaternion", "rotation_euler"}},
             {[path |-> <<"toe.L", prop, 1>>, frame |-> 1, value |-> 7,
               interpolation |-> "CONSTANT"] :
                prop \in {"location", "rotation_quaternion", "rotation_euler"}}) }

InitKeys ==
    /\ kBone \in { KeyBone(mode) : mode \in RotationModes }
    /\ kAnim \in KeyAnims
    /\ kMat \in KeyMats
    /\ kFrame \in 1..MaxFrame
    /\ kCalls = <<>>
    /\ kErr = ""
    /\ kPrev = <<>>
    /\ IdleTransfer
    /\ IdleMatrix
    /\ IdleFloor
    /\ IdleBend
    /\ IdlePole
    /\ IdleToe
    /\ IdleRange

notKeys == <<transferVars, matrixVars, floorVars, bendVars, poleVars, toeVars,
      rangeVars>>

\* the outcome r of a call fn of the keyframe writer is taken over
KeysCall(fn, r) ==
    /\ kPrev' = [pb |-> kBone, anim |-> kAnim]
    /\ kCalls' = Append(kCalls, [fn |-> fn, frame |-> kFrame])
    /\ kErr' = r.err
    /\ kBone' = r.pb
    /\ kAnim' = r.anim
    /\ UNCHANGED <<kMat, kFrame>>
    /\ UNCHANGED notKeys

\* insertLocation(pb, mat)
InsertLocation ==
    /\ kErr = ""
    /\ Len(kCalls) < MaxCalls
    /\ \E r \in {insertLocationFcu(kBone, kAnim, kFrame, kMat)} :
          KeysCall("insertLocation", r)

\* insertRotation(pb, mat)
InsertRotation ==
    /\ kErr = ""
    /\ Len(kCalls) < MaxCalls
    /\ \E r \in {insertRotationFcu(kBone, kAnim, kFrame, kMat)} :
          KeysCall("insertRotation", r)

\* scn.frame_set(frame) between two calls
KeysFrameSet ==
    /\ kErr = ""
    /\ kCalls # <<>>
    /\ Len(kCalls) < MaxCalls
    /\ \E frame \in (1..MaxFrame) \ {kFrame} : kFrame' = frame
    /\ UNCHANGED <<kBone, kAnim, kMat, kCalls, kErr, kPrev>>
    /\ UNCHANGED notKeys

NextKeys ==
    \/ InsertLocation
    \/ InsertRotation
    \/ KeysFrameSet

SpecKeys == InitKeys /\ [][NextKeys]_vars

\* the last call of the keyframe writer
LastCall == kCalls[Len(kCalls)]

\* the last two calls were the same call at the same frame
CalledTwice ==
    /\ Len(kCalls) >= 2
    /\ kErr = ""
    /\ kCalls[Len(kCalls) - 1] = LastCall
    /\ kFrame = LastCall.frame

\* the property a call keys and the values it is to hold
KeyedProperty(fn) ==
    IF fn = "insertLocation"
    THEN [prop |-> "location", values |-> ToTranslation[kMat]]
    ELSE IF kBone.rotation_mode = "QUATERNION"
    THEN [prop |-> "rotation_quaternion", values |-> ToQuaternion(kMat)]
    ELSE [prop |-> "rotation_euler",
          values |-> QuatToEuler(ToQuaternion(kMat), kBone.rotation_mode).euler]

\* C17: after insertLocation (or insertRotation) was called twice for the
\* bone at the same frame with the same pose matrix, every curve of the
\* keyed property has exactly one sample at that frame, holding the value,
\* and the second call changed neither the bone nor the curves.
C17_SecondInsertChangesNothing ==
    CalledTwice =>
        /\ kPrev = [pb |-> kBone, anim |-> kAnim]
        /\ \A i \in 1..Len(KeyedProperty(LastCall.fn).values) :
              \E pt \in kAnim.points :
                 /\ PointsAt(kAnim,
                             <<kBone.name, KeyedProperty(LastCall.fn).prop, i>>,
                             kFrame) = {pt}
                 /\ pt.value = KeyedProperty(LastCall.fn).values[i]

\* C17 witness: insertLocation twice at frame 1, where the location curve
\* had a key with another value, and insertRotation twice on an Euler bone
\* with a half turn
C17_Witness ==
    /\ CalledTwice
    /\ kFrame = 1
    /\ \E fcu \in kAnim.fcurves : fcu.extrapolation = "LINEAR"
    /\ ToTranslation[kMat] = <<1, 2, 3>>
    /\ LastCall.fn = "insertLocation"
    /\ \E pt \in kAnim.points : pt.path = <<"toe.L", "location", 1>>
                                /\ pt.frame = 1 /\ pt.value = 1

\* C18 as claimed: insertRotation writes the rotation in the bone's own
\* representation: a quaternion bone gets its quaternion set and a
\* quaternion sample, an Euler bone an Euler value and an Euler sample, an
\* axis-angle bone an axis-angle sample; none of the three fails.
C18_RotationInOwnMode ==
    (kCalls # <<>> /\ LastCall.fn = "insertRotation") =>
        /\ kErr = ""
        /\ LET prop == CASE kBone.rotation_mode = "QUATERNION"
                              -> "rotation_quaternion"
                         [] kBone.rotation_mode = "AXIS_ANGLE"
                              -> "rotation_axis_angle"
                         [] OTHER -> "rotation_euler"
           IN  /\ \E pt \in kAnim.points : /\ pt.path[2] = prop
                                           /\ pt.frame = LastCall.frame
               /\ kBone.rotation_mode = "QUATERNION" =>
                     kBone.rotation_quaternion = ToQuaternion(kMat)
               /\ kBone.rotation_mode \in EulerOrders =>
                     EulerMatrix(kBone.rotation_euler, kBone.rotation_mode)
                        = To3x3[kMat]

-----------------------------------------------------------------------------
(* Properties of setInterpolation at the end of a transfer *)

\* every key of the action is linear and every curve extrapolates constantly
AllLinearConstant(anim) ==
    /\ \A pt \in anim.points : pt.interpolation = "LINEAR"
    /\ \A fcu \in anim.fcurves : fcu.extrapolation = "CONSTANT"

\* the curves of the action and the frame and value of each of their keys
KeyValues(anim) ==
    [paths |-> {fcu.path : fcu \in anim.fcurves},
     keys |-> {<<pt.path, pt.frame, pt.value>> : pt \in anim.points}]

\* the step that ends a transfer with success
TransferSucceeds == result # "message" /\ result' = "message"

\* C19: the step that ends a transfer (FK->IK or IK->FK) with success
\* leaves every key of every curve of the rig's action linear and every
\* curve with constant extrapolation, without changing which curves and
\* keys there are or any key's frame or value; nothing touches the curves
\* after it; and setInterpolation leaves a rig without animation data or
\* without an action as it is.
C19_LinearConstantAtEnd ==
    [][/\ TransferSucceeds =>
             /\ AllLinearConstant(animData')
             /\ KeyValues(animData') = KeyValues(animData)
             /\ Cardinality(animData'.points) = Cardinality(animData.points)
       /\ result = "message" => animData' = animData
       /\ setInterpolation(NoAnimData) = NoAnimData
       /\ setInterpolation(NoAction) = NoAction]_vars

\* C19 witness: a transfer has succeeded on an action that had a curve
\* with linear extrapolation and Bezier keys, and got keys for an IK bone
C19_Witness ==
    /\ result = "message"
    /\ op.name = "ToIk"
    /\ \E fcu \in animData.fcurves : fcu.path = <<<<"root", "">>, "rotation", 1>>
    /\ \E pt \in animData.points : pt.path[1] = <<"hand.ik", "L">>
    /\ AllLinearConstant(animData)

-----------------------------------------------------------------------------
(* Properties of the transfer operators on incomplete rigs *)

\* the operator has ended, one way or another
TransferEnded == result \notin {"none", "running"}

\* C20 as claimed: on a rig that lacks any one bone of the snap-bone
\* convention a transfer ends with the MocapError "Not an mhx armature",
\* and with no other failure.
C20_MissingBoneIsMocapError ==
    (rigMissing # {} /\ TransferEnded) => result = "MocapError"

-----------------------------------------------------------------------------
(* Properties of the transfer operators on rigs without animation *)

\* the rig has no animation data or no active action
NoAnimation == ~animData.data \/ ~animData.action

\* C21 as claimed: a transfer (FK->IK or IK->FK) on a complete MHX rig
\* without animation data or without an active action ends with the
\* MocapError of getCurrentAction ("Rig has no animation data" / "Rig has
\* no action"), raised before any frame is processed.
C21_NoAnimationIsMocapError ==
    (NoAnimation /\ rigMissing = {} /\ TransferEnded) =>
        /\ result = "MocapError"
        /\ frameIdx = 0

-----------------------------------------------------------------------------
(* Properties of the selection and of execute in the toe pass *)

\* the names of the selected objects of a type
SelectedOf(type) ==
    {tView[i].name : i \in {j \in DOMAIN tView : /\ tView[j].select
                                                  /\ tView[j].type = type}}

\* C22: with more than one armature selected, or more than one mesh, the
\* pass fails with the error for two armatures or two meshes, and the
\* current frame, the keys and the layers are as before; with exactly one
\* armature and at most one mesh selected, that armature and that mesh (or
\* no plane) are the ones used, and the selection raises no error.
C22_AmbiguousSelectionFails ==
    tPc # "idle" =>
        /\ (Cardinality(SelectedOf("ARMATURE")) > 1
              \/ Cardinality(SelectedOf("MESH")) > 1) =>
              /\ tPc = "failed"
              /\ tErr \in {TwoArmatures, TwoMeshes}
              /\ tUsed = <<>>
              /\ tIdx = 0
              /\ tFrame = tBefore.frame
              /\ tKeys = tBefore.keys
              /\ tLayers = tBefore.layers
        /\ (Cardinality(SelectedOf("ARMATURE")) = 1
              /\ Cardinality(SelectedOf("MESH")) <= 1) =>
              /\ tUsed # <<>>
              /\ SelectedOf("ARMATURE") = {tUsed.rig}
              /\ SelectedOf("MESH") = {tUsed.plane} \ {""}
              /\ tErr \notin {TwoArmatures, TwoMeshes, NoRigSelected}

\* C22 witness: the pass has failed on two selected meshes, an armature
\* being selected too
C22_Witness ==
    /\ tPc = "failed"
    /\ tErr = TwoMeshes
    /\ Cardinality(SelectedOf("MESH")) = 2
    /\ Cardinality(SelectedOf("ARMATURE")) = 1

\* C23 as claimed: after an error was raised inside the toe pass the
\* operator does not report completion: execute does not return
\* {'FINISHED'}.
C23_NoFinishAfterError ==
    tErr # "" => tExec.returned # "FINISHED"

-----------------------------------------------------------------------------
(* Properties of the conversions on degenerate bones *)

\* the bone's rest matrix, or a matrix of its parent, has no inverse
DegenerateBone ==
    \/ Det[mBone.rest] = 0
    \/ /\ mBone.hasParent
       /\ (Det[mBone.parRest] = 0 \/ Det[mBone.parMat] = 0)

\* C24 as claimed: getPoseMatrix and getGlobalMatrix, given a bone whose
\* rest matrix or parent matrix is not invertible, fail with the
\* DegenerateTransform error of a determinant guard: they neither return a
\* matrix nor fail in another way.
C24_DegenerateTransformError ==
    (mPc \in {"pose", "global"} /\ DegenerateBone) =>
        mMid.err = "DegenerateTransform"

-----------------------------------------------------------------------------
(* utils.py: the frame range -- getActiveFrames0, getActiveFrames,          *)
(* getActiveFramesBetweenMarkers, each called once                          *)

\* the key times of the frame-range calls lie in 1..MaxTime, the markers
\* and the minTime / maxTime arguments in 0..MaxTime + 1
MaxTime == 4

\* getActiveFrames0(ob): the key times of all curves of the action, none
\* without animation data or action
getActiveFrames0(anim) ==
    IF ~anim.data THEN {}
    ELSE IF ~anim.action THEN {}
    ELSE {pt.frame : pt \in anim.points}

\* the frames of the markers with mrk.select, in the order of the list
MarkedFrames(markers) ==
    LET sel == SelectSeq(markers, LAMBDA mrk : mrk.select)
    IN  [i \in 1..Len(sel) |-> sel[i].frame]

\* an action with a location curve keyed at the times A and a rotation
\* curve keyed at the times B
TwoCurves(A, B) ==
    Action({[path |-> <<<<"root", "">>, "location", 1>>,
             extrapolation |-> "CONSTANT"],
            [path |-> <<<<"root", "">>, "rotation", 1>>,
             extrapolation |-> "CONSTANT"]},
           {[path |-> <<<<"root", "">>, "location", 1>>, frame |-> t,
             value |-> 0, interpolation |-> "LINEAR"] : t \in A}
           \cup {[path |-> <<<<"root", "">>, "rotation", 1>>, frame |-> t,
                  value |-> 0, interpolation |-> "LINEAR"] : t \in B})

\* the animation data tried
RangeAnims ==
    {NoAnimData, NoAction}
    \cup {TwoCurves(A, B) : A \in SUBSET (1..MaxTime),
                            B \in {{}, {1, MaxTime}}}

\* the timeline markers tried: up to two, selected or not
RangeMarkers ==
    LET M == [frame : 0..(MaxTime + 1), select : BOOLEAN]
    IN  {<<>>} \cup {<<m>> : m \in M} \cup {<<m, n>> : m \in M, n \in M}

\* the calls tried
RangeCalls ==
    {[fn |-> "getActiveFramesBetweenMarkers", minTime |-> 0, maxTime |-> 0]}
    \cup {[fn |-> "getActiveFrames", minTime |-> lo, maxTime |-> hi] :
             lo \in 0..(MaxTime + 1), hi \in 0..(MaxTime + 1)}

InitRange ==
    /\ rAnim \in RangeAnims
    /\ rCall \in RangeCalls
    /\ rMarkers \in (IF rCall.fn = "getActiveFramesBetweenMarkers"
                     THEN RangeMarkers ELSE {<<>>})
    /\ rOut = <<>>
    /\ rPc = "start"
    /\ IdleTransfer
    /\ IdleMatrix
    /\ IdleFloor
    /\ IdleBend
    /\ IdlePole
    /\ IdleToe
    /\ IdleKeys

notRange ==
    <<transferVars, matrixVars, floorVars, bendVars, poleVars, toeVars,
      keysVars>>

\* getActiveFramesBetweenMarkers(ob, scn)
CallBetweenMarkers ==
    /\ rPc = "start"
    /\ rCall.fn = "getActiveFramesBetweenMarkers"
    /\ rOut' = [err |-> "",
                frames |-> getActiveFramesBetweenMarkers(
                              getActiveFrames0(rAnim), MarkedFrames(rMarkers))]
    /\ rPc' = "done"
    /\ UNCHANGED <<rAnim, rMarkers, rCall>>
    /\ UNCHANGED notRange

\* getActiveFrames(ob, minTime, maxTime)
CallActiveFrames ==
    /\ rPc = "start"
    /\ rCall.fn = "getActiveFrames"
    /\ rOut' = getActiveFrames(getActiveFrames0(rAnim), rCall.minTime,
                               rCall.maxTime)
    /\ rPc' = "done"
    /\ UNCHANGED <<rAnim, rMarkers, rCall>>
    /\ UNCHANGED notRange

NextRange ==
    \/ CallBetweenMarkers
    \/ CallActiveFrames

SpecRange == InitRange /\ [][NextRange]_vars

-----------------------------------------------------------------------------
(* Properties of the frame range *)

\* the distinct key times of the curves of the active action
KeyTimesOf(anim) ==
    IF anim.data /\ anim.action THEN {pt.frame : pt \in anim.points} ELSE {}

StrictlyIncreasing(s) == \A i \in 1..(Len(s) - 1) : s[i] < s[i + 1]

\* the frames of the selected markers, counted with their multiplicity
SelectedMarkers == {i \in DOMAIN rMarkers : rMarkers[i].select}

\* the key times from the lowest to the highest selected marker
BetweenMarkers ==
    {t \in KeyTimesOf(rAnim) :
        /\ \E i \in SelectedMarkers : rMarkers[i].frame <= t
        /\ \E i \in SelectedMarkers : t <= rMarkers[i].frame}

\* C25: the range getActiveFramesBetweenMarkers returns is strictly
\* increasing and holds exactly the distinct key times of the action's
\* curves between the lowest and the highest selected marker when two or
\* more markers are selected, all key times with fewer selected markers,
\* and is empty without animation data or action.
C25_RangeBetweenMarkers ==
    (rPc = "done" /\ rCall.fn = "getActiveFramesBetweenMarkers") =>
        /\ rOut.err = ""
        /\ StrictlyIncreasing(rOut.frames)
        /\ Range(rOut.frames) =
              IF Cardinality(SelectedMarkers) >= 2 THEN BetweenMarkers
              ELSE KeyTimesOf(rAnim)
        /\ (~rAnim.data \/ ~rAnim.action) => rOut.frames = <<>>

\* C25 witness: two selected markers, a key time on both curves inside
\* them, key times kept and key times left out
C25_Witness ==
    /\ rPc = "done"
    /\ rCall.fn = "getActiveFramesBetweenMarkers"
    /\ Cardinality(SelectedMarkers) = 2
    /\ Len(rOut.frames) >= 2
    /\ Cardinality(KeyTimesOf(rAnim)) > Len(rOut.frames)
    /\ Cardinality(rAnim.points) > Cardinality(KeyTimesOf(rAnim))
    /\ 1 \in Range(rOut.frames)

\* the key times in [minTime, maxTime]
InInterval ==
    {t \in KeyTimesOf(rAnim) : rCall.minTime <= t /\ t <= rCall.maxTime}

\* C28: getActiveFrames(ob, minTime, maxTime) returns the sorted key times
\* that lie in [minTime, maxTime] when there is one; when there is none
\* (an action without keys included) it returns no range but raises
\* IndexError.  (Either way the call ends.)
C28_TrimmedOrIndexError ==
    (rPc = "done" /\ rCall.fn = "getActiveFrames") =>
        IF InInterval # {}
        THEN /\ rOut.err = ""
             /\ StrictlyIncreasing(rOut.frames)
             /\ Range(rOut.frames) = InInterval
        ELSE /\ rOut.err = "IndexError"
             /\ rOut.frames = <<>>

\* C28 witness: key times but none in the interval, which lies between
\* two of them, and the call has raised
C28_Witness ==
    /\ rPc = "done"
    /\ rCall.fn = "getActiveFrames"
    /\ rCall.minTime <= rCall.maxTime
    /\ \E t \in KeyTimesOf(rAnim) : t < rCall.minTime
    /\ \E t \in KeyTimesOf(rAnim) : t > rCall.maxTime
    /\ InInterval = {}
    /\ rOut.err = "IndexError"

-----------------------------------------------------------------------------
(* Properties of the leg snap and the IK-to-ankle flag *)

\* the names of the leg bones of a side written in the current frame, in
\* the order they were written
LegWritten(side) ==
    LET legs == SelectSeq(written,
                          LAMBDA pb : /\ pb[2] = side
                                      /\ pb[1] \in Range(SnapBonesAlpha8.LegIK)
                                                     \cup Range(SnapBonesAlpha8.LegFK))
    IN  [i \in 1..Len(legs) |-> legs[i][1]]

\* the snaps of a frame are over, the legs included
LegsSnapped(name) ==
    /\ op.name = name
    /\ op.useLegs
    /\ pc = "frames"
    /\ frameIdx >= 1
    /\ callsDone = Len(Calls)

\* C26 as claimed: in the FK->IK leg snap the bones written for a leg whose
\* IK-to-ankle flag is set differ from those written for a leg whose flag
\* is clear.
C26_AnkleFlagChangesIkSnap ==
    (LegsSnapped("ToIk") /\ legIkToAnkle["L"] # legIkToAnkle["R"]) =>
        LegWritten("L") # LegWritten("R")

-----------------------------------------------------------------------------
(* Properties of the IK switches and the limb layers in a transfer *)

\* the IK switches of the limbs the operator includes
IncludedProps(o) ==
    (IF o.useArms THEN {"MhaArmIk_L", "MhaArmIk_R"} ELSE {}) \cup
    (IF o.useLegs THEN {"MhaLegIk_L", "MhaLegIk_R"} ELSE {})

\* every switch of an included limb has the value
SwitchesAre(value) == \A p \in IncludedProps(op) : ikSwitch[p] = value

\* of no included limb are an IK layer and an FK layer both in lay
LimbLayersExclusive(lay, o) ==
    /\ o.useArms => ({2, 18} \cap lay = {} \/ {3, 19} \cap lay = {})
    /\ o.useLegs => ({4, 20} \cap lay = {} \/ {5, 21} \cap lay = {})

\* the switches in a step of a transfer: in every frame of an IK->FK
\* transfer those of the included limbs are 1 and after success 0, in an
\* FK->IK transfer 0 and then 1, and no other switch is written
SwitchesInStep ==
    /\ pc' = "frames" => SwitchesAre(IF op.name = "ToFk" THEN 1 ELSE 0)'
    /\ result' = "message" => SwitchesAre(IF op.name = "ToFk" THEN 0 ELSE 1)'
    /\ \A p \in IkProps : ikSwitch'[p] # ikSwitch[p] => p \in IncludedProps(op)

\* the step of run that calls setMhxIk before the frame loop
FirstSetMhxIk == pc = "run" /\ changed'

\* C27 as claimed: the switches are as said, and once setMhxIk was called
\* the IK and FK layers of an included limb are never both visible: not
\* in the frames of the transfer, and not when it has succeeded.
C27_LayersNeverBothVisible ==
    [][/\ SwitchesInStep
       /\ pc' = "frames" => LimbLayersExclusive(layers', op)
       /\ TransferSucceeds => LimbLayersExclusive(layers', op)]_vars

\* C27, amended: the switches are as said, and the layers each setMhxIk
\* call leaves are exclusive for every included limb: those the call before
\* the frame loop returns with (rig.data.layers = MhxLayers then shows both
\* sets during the frames) and those of the rig when the transfer has
\* succeeded.
C27_LayersExclusiveAfterCall ==
    [][/\ SwitchesInStep
       /\ FirstSetMhxIk =>
             LimbLayersExclusive(
                setMhxIk(RigBones(rigMissing), ikSwitch, layers, op.useArms,
                         op.useLegs,
                         IF op.name = "ToFk" THEN 1 ELSE 0).layers, op)
       /\ TransferSucceeds => LimbLayersExclusive(layers', op)]_vars

\* C27 witness: an FK->IK transfer of the arms alone has succeeded on a rig
\* whose switches were 0 and whose layers were all visible
C27_Witness ==
    /\ result = "message"
    /\ pc = "sequel"
    /\ op.name = "ToIk"
    /\ op.useArms
    /\ ~op.useLegs
    /\ oldLayers = AllLayers
    /\ ikSwitch["MhaArmIk_L"] = 1
    /\ ikSwitch["MhaLegIk_L"] = 0
    /\ LimbLayersExclusive(layers, op)

-----------------------------------------------------------------------------
(* Properties of the root in the IK floor pass *)

\* the root bone was moved in the frame
RootMoved == CallsOf(fPose.root.name) # <<>>

\* C29: in IK floor mode with hip lifting on, the root is moved at a frame
\* only if both feet are enabled and both have an offset above zero there;
\* with exactly one side enabled it is not moved, whatever the enabled
\* foot's offset.
C29_RootNeedsBothFeet ==
    (IkProcessed /\ fScn.McpFloorHips) =>
        /\ RootMoved =>
              /\ Enabled("L") /\ Lowest("L") > 0
              /\ Enabled("R") /\ Lowest("R") > 0
        /\ Enabled("L") # Enabled("R") => ~RootMoved

\* C29 witness: hip lifting on, the left side alone enabled and the left
\* foot below the plane: the foot's control is moved, the root is not
C29_Witness ==
    /\ IkProcessed
    /\ fScn.McpFloorHips
    /\ Enabled("L")
    /\ ~Enabled("R")
    /\ Lowest("L") > 0
    /\ CallsOf(fPose.ik["L"].name) # <<>>
    /\ ~RootMoved


-----------------------------------------------------------------------------
(* fkik.py: what limbsBendPositive changes *)

\* the key of curve c at time t is one minimizeFCurve may raise: its time is
\* within [frames[0], frames[-1]] and its value below y0 = fcu.evaluate(0)
Raisable(c, t) ==
    /\ t >= bFrames[1]
    /\ t <= bFrames[Len(bFrames)]
    /\ c.kp[t] < evaluate0(c.kp)

\* some key of some bend-axis curve differs from what it was before the run
SomeKeyRaised ==
    \E b \in DOMAIN bCurves : \E t \in DOMAIN bCurves[b].kp :
        bCurves[b].kp[t] # bBefore[b].kp[t]

\* C30: limb straightening changes only values of keys of the index-0
\* rotation curve of the forearm and shin target bones chosen by useElbows
\* and useKnees, and of those only keys whose time lies in [first frame, last
\* frame] of the range and whose value is below the reference (the value
\* fcu.evaluate(0) the code compares with); keys outside the range, keys at
\* or above the reference, all key times, the bone and curve lookups and all
\* other curves stay as they are, and a bone or a curve that is missing is
\* passed over without ending the run in an error.
C30_OnlyLowKeysInRangeChange ==
    [][ /\ bKeyTimes' = bKeyTimes
        /\ (bPc = "bending" => bPc' \in {"bending", "done"})
        /\ \A b \in DOMAIN bCurves :
              /\ bCurves'[b].pb = bCurves[b].pb
              /\ bCurves'[b].fcu = bCurves[b].fcu
              /\ DOMAIN bCurves'[b].kp = DOMAIN bCurves[b].kp
              /\ (~bCurves[b].pb \/ ~bCurves[b].fcu) => bCurves'[b] = bCurves[b]
              /\ \A t \in DOMAIN bCurves[b].kp :
                    bCurves'[b].kp[t] # bCurves[b].kp[t] =>
                        /\ b \in Range(limbsBendPositive(bOp.useElbows,
                                                         bOp.useKnees))
                        /\ Raisable(bCurves[b], t)
                        /\ bCurves'[b].kp[t] = evaluate0(bCurves[b].kp) ]_vars

\* a finished run over all four bones, one without a target bone and one
\* without a curve, that raised a key of forearm.L within the range and left
\* a key below the reference outside the range as it was
C30_Witness ==
    /\ bPc = "done"
    /\ bOp.useElbows
    /\ bOp.useKnees
    /\ bDone = 4
    /\ ~bCurves["forearm.R"].pb
    /\ ~bCurves["shin.L"].fcu
    /\ \E t \in DOMAIN bCurves["forearm.L"].kp :
          bCurves["forearm.L"].kp[t] # bBefore["forearm.L"].kp[t]
    /\ \E t \in DOMAIN bCurves["forearm.L"].kp :
          /\ t > bFrames[Len(bFrames)]
          /\ bBefore["forearm.L"].kp[t] < evaluate0(bBefore["forearm.L"].kp)
          /\ bCurves["forearm.L"].kp[t] = bBefore["forearm.L"].kp[t]

=============================================================================
